---- MODULE Spec2Model ----
(***************************************************************************)
(* Inviwo core: the PropertyOwner container                                *)
(* (src/src/core/properties/propertyowner.cpp).                            *)
(*                                                                         *)
(* Objects are numbered.  Property objects live in the slots 1..MaxProps   *)
(* of a heap; PropertyOwner objects that are not properties are the        *)
(* numbers in Owners.  A CompositeProperty is both: a property slot that   *)
(* also has the four PropertyOwner containers.  Pointers are object        *)
(* numbers, nullptr is NULL.                                               *)
(*                                                                         *)
(* Every method is an operator from a program state (a record of all the   *)
(* fields) to the program state after the call; an action applies one      *)
(* public method to the current state.  The notifications a call emits are *)
(* recorded in `notes`, each with what an observer sees at that instant.   *)
(***************************************************************************)
EXTENDS Integers, Sequences, FiniteSets, TLC

\* ------------------------------------------------------------------ bounds
MaxProps == 6         \* slots of the heap: property objects alive at a time

MaxConnections == 4   \* connections of the network at a time
MaxPathLen == 5       \* characters of a path handed to getPropertyByPath

NULL == 0
Props == 1..MaxProps
Owners == {101, 102}
OwnerIds == Owners \cup Props
IdSeq == <<"x", "y", "z">>
Ids == {IdSeq[i] : i \in 1..Len(IdSeq)}
IdIndex(id) == CHOOSE i \in 1..Len(IdSeq) : IdSeq[i] = id
NoId == ""
Kinds == {"plain", "event", "composite"}
Observers == {"obs"}
Values == {"v0", "v1"}
DefaultValue == "v0"
\* enum class InvalidationLevel { Valid, InvalidOutput, InvalidResources }
Valid == 0
InvalidationLevels == 0..2

\* The properties the application has created at the start: three identifiers,
\* one of them used twice, and every dynamic type.
BaseProps == {1, 2, 3, 4}
BaseIdent(p) == CASE p = 1 -> "x" [] p = 2 -> "y" [] p = 3 -> "x" [] OTHER -> "z"
BaseKind(p) == CASE p = 2 -> "event" [] p = 3 -> "composite" [] OTHER -> "plain"

VARIABLES
    constructed,           \* Owners -> BOOLEAN: the PropertyOwner object exists
    properties_,           \* OwnerIds -> Seq(Props)   std::vector<Property*>
    eventProperties_,      \* OwnerIds -> Seq(Props)   std::vector<EventProperty*>
    compositeProperties_,  \* OwnerIds -> Seq(Props)   std::vector<CompositeProperty*>
    ownedProperties_,      \* OwnerIds -> Seq(Props)   std::vector<std::unique_ptr<Property>>
    observers,             \* Owners -> SUBSET Observers
    pstate,                \* Props -> {"free","live"}
    ident,                 \* Props -> identifier
    kind,                  \* Props -> dynamic type
    owner_,                \* Props -> OwnerIds \cup {NULL}: Property::owner_
    serMode,               \* Props -> {"Default","All"}
    value,                 \* Props -> Values: the value the property holds
    invalidationLevel_,    \* OwnerIds -> InvalidationLevels
    propertyModified_,     \* Props -> BOOLEAN: Property::propertyModified_
    network,               \* the ProcessorNetwork: processors, connections, links
    clipboard,             \* the stream serializeSelected writes: <<>> or <<document>>
    moduleManager,         \* the ModuleManager: inviwoModules_ and the settings it reads
    callbacks,             \* the CallBackList objects
    tf,                    \* the TFPrimitiveSet: type_, values_ and sorted_
    notes,                 \* notifications emitted by the last call
    last                   \* the last call: method, arguments, result

vars == <<constructed, properties_, eventProperties_, compositeProperties_,
          ownedProperties_, observers, pstate, ident, kind, owner_, serMode,
          value, invalidationLevel_, propertyModified_, network, clipboard,
          moduleManager, callbacks, tf, notes, last>>

\* the variables of the module manager, the callback lists and the transfer function
appVars == <<moduleManager, callbacks, tf>>

\* the variables of the property tree
propertyVars == <<constructed, properties_, eventProperties_, compositeProperties_,
                  ownedProperties_, observers, pstate, ident, kind, owner_, serMode,
                  value, invalidationLevel_, propertyModified_>>

\* ------------------------------------------------------- std::vector helpers
InSeq(x, q) == \E i \in 1..Len(q) : q[i] = x

\* std::find / std::find_if: position (1-based) of the first match, Len+1 for end()
\* `match` is the set of the objects the predicate accepts
FindPos(q, match) ==
    IF \E i \in 1..Len(q) : q[i] \in match
    THEN CHOOSE i \in 1..Len(q) : q[i] \in match /\ \A j \in 1..(i - 1) : q[j] \notin match
    ELSE Len(q) + 1

RemoveAt(q, pos) == SubSeq(q, 1, pos - 1) \o SubSeq(q, pos + 1, Len(q))

InsertAt(q, pos, x) == SubSeq(q, 1, pos - 1) \o <<x>> \o SubSeq(q, pos, Len(q))

\* std::erase(vector, value): removes every element equal to value
Erase(q, x) == SelectSeq(q, LAMBDA y : y # x)

Range(q) == {q[i] : i \in 1..Len(q)}

\* -------------------------------------------------------------- the network
\* The Processor objects and the ProcessorNetwork that holds them.  A port is a
\* pair <<processor, number>>; a connection joins an outport to an inport.
Procs == 1..6
Ports == Procs \X {1}
PortConnections == [outport : Ports, inport : Ports]
\* a property link joins a source property to a destination property; a
\* property is a pair <<processor, number>>
PropertyLinks == [src : Ports, dst : Ports]

\* what ProcessorNetwork::addProcessor adds to an identifier that is taken
IdentifierStep == 10

\* the processors whose isConnectionActive() can return false
Switches == {1}

\* no ProcessorNetwork has been made
NoNetwork == [processors |-> {}, sinks |-> {}, connections |-> {}, inactive |-> {},
              identifier |-> [p \in Procs |-> NULL], selected |-> {}, links |-> {}]

\* std::unordered_set<Processor*> getDirectPredecessors(Processor* processor)
getDirectPredecessors(n, p) ==
    {c.outport[1] : c \in {d \in n.connections : d.inport[1] = p}}

\* std::unordered_set<Processor*> getDirectSuccessors(Processor* processor)
getDirectSuccessors(n, p) ==
    {c.inport[1] : c \in {d \in n.connections : d.outport[1] = p}}

\* traverseNetwork<Direction, VisitPattern::Post>(state, processor, f, filter):
\* a processor not yet in `state` is put there, the processors at the other
\* end of its connections that pass the filter are traversed, then f is called
\* on it.  `acc` holds state and the processors f was called on, in order.
RECURSIVE traverseNetwork(_, _, _, _, _), traverseEach(_, _, _, _, _)
traverseNetwork(n, up, filtered, acc, p) ==
    IF p \in acc.state THEN acc
    ELSE LET pass == IF filtered THEN n.connections \ n.inactive ELSE n.connections
             next == IF up THEN {c.outport[1] : c \in {d \in pass : d.inport[1] = p}}
                     ELSE {c.inport[1] : c \in {d \in pass : d.outport[1] = p}}
             done == traverseEach(n, up, filtered,
                                  [acc EXCEPT !.state = @ \cup {p}], next)
         IN [done EXCEPT !.visited = Append(@, p)]

\* the loop over processors, in the order in which the network lists them
traverseEach(n, up, filtered, acc, todo) ==
    IF todo = {} THEN acc
    ELSE LET q == CHOOSE r \in todo : \A u \in todo : r <= u
         IN traverseEach(n, up, filtered,
                         traverseNetwork(n, up, filtered, acc, q), todo \ {q})

\* getPredecessors that stops after one connection
getPredecessorsOneHop(n, p) == {p} \cup getDirectPredecessors(n, p)

\* std::unordered_set<Processor*> getPredecessors(Processor* processor)
getPredecessors(n, p) ==
    Range(traverseNetwork(n, TRUE, FALSE, [state |-> {}, visited |-> <<>>], p).visited)

\* std::unordered_set<Processor*> getSuccessors(Processor* processor)
getSuccessors(n, p) ==
    Range(traverseNetwork(n, FALSE, FALSE, [state |-> {}, visited |-> <<>>], p).visited)

\* topologicalSort that starts from every processor of the network
topologicalSortFromAll(n) ==
    traverseEach(n, TRUE, FALSE, [state |-> {}, visited |-> <<>>], n.processors).visited

\* std::vector<Processor*> topologicalSort(ProcessorNetwork* network)
topologicalSort(n) ==
    traverseEach(n, TRUE, FALSE, [state |-> {}, visited |-> <<>>],
                 n.processors \cap n.sinks).visited

\* topologicalSortFiltered that follows the inactive connections too
topologicalSortUnfiltered(n) == topologicalSort(n)

\* std::vector<Processor*> topologicalSortFiltered(ProcessorNetwork* network)
topologicalSortFiltered(n) ==
    traverseEach(n, TRUE, TRUE, [state |-> {}, visited |-> <<>>],
                 n.processors \cap n.sinks).visited

\* NetworkEdge: a connection or a link written as two paths, each the identifier
\* of the processor followed by the port or property
NetworkEdge(n, from, to) ==
    [src |-> <<n.identifier[from[1]], from[2]>>, dst |-> <<n.identifier[to[1]], to[2]>>]

\* the connections part of PartialProcessorNetwork::serialize with a connection
\* called external when either end is selected
serializeConnectionsEitherEnd(n) ==
    LET in(c) == c.inport[1] \in n.selected
        out(c) == c.outport[1] \in n.selected
    IN [internal |-> {NetworkEdge(n, c.outport, c.inport) :
                         c \in {d \in n.connections : in(d) /\ out(d)}},
        external |-> {NetworkEdge(n, c.outport, c.inport) :
                         c \in {d \in n.connections : in(d) # out(d)}}]

\* PartialProcessorNetwork::serialize: internalConnections and externalConnections
serializeConnections(n) ==
    LET in(c) == c.inport[1] \in n.selected
        out(c) == c.outport[1] \in n.selected
    IN [internal |-> {NetworkEdge(n, c.outport, c.inport) :
                         c \in {d \in n.connections : in(d) /\ out(d)}},
        external |-> {NetworkEdge(n, c.outport, c.inport) :
                         c \in {d \in n.connections : in(d) /\ ~out(d)}}]

\* the links part of PartialProcessorNetwork::serialize with outLinks and
\* inLinks taken for each other
serializeLinksSwapped(n) ==
    LET srcInt(l) == l.src[1] \in n.selected
        dstInt(l) == l.dst[1] \in n.selected
        edges(ls) == {NetworkEdge(n, l.src, l.dst) : l \in ls}
    IN [internal |-> edges({l \in n.links : srcInt(l) /\ dstInt(l)}),
        out |-> edges({l \in n.links : ~srcInt(l) /\ dstInt(l)}),
        in |-> edges({l \in n.links : srcInt(l) /\ ~dstInt(l)})]

\* PartialProcessorNetwork::serialize: internalLinks, outLinks and inLinks
serializeLinks(n) ==
    LET srcInt(l) == l.src[1] \in n.selected
        dstInt(l) == l.dst[1] \in n.selected
        edges(ls) == {NetworkEdge(n, l.src, l.dst) : l \in ls}
    IN [internal |-> edges({l \in n.links : srcInt(l) /\ dstInt(l)}),
        out |-> edges({l \in n.links : srcInt(l) /\ ~dstInt(l)}),
        in |-> edges({l \in n.links : ~srcInt(l) /\ dstInt(l)})]

\* void detail::PartialProcessorNetwork::serialize(Serializer& s) const: the
\* document holds the selected processors by identifier and the five lists
serialize(n) ==
    [processors |-> {n.identifier[p] : p \in n.selected},
     connections |-> serializeConnections(n),
     links |-> serializeLinks(n)]

\* ProcessorNetwork::addProcessor gives a processor whose identifier is taken
\* an identifier derived from it that no processor of the network has
uniqueIdentifier(n, id) ==
    LET used == {n.identifier[p] : p \in n.processors}
        k == CHOOSE i \in 0..Cardinality(Procs) :
                 /\ id + IdentifierStep * i \notin used
                 /\ \A j \in 0..(i - 1) : id + IdentifierStep * j \in used
    IN id + IdentifierStep * k

\* addProcessors that runs the AutoLinker on each processor as it is added
RECURSIVE addProcessorsThenAutoLink(_, _)
addProcessorsThenAutoLink(st, ids) ==
    IF ids = {} THEN st
    ELSE LET orgId == CHOOSE i \in ids : \A j \in ids : i <= j
             p == st.added[Cardinality(DOMAIN st.processorIds) + 1]
             newId == uniqueIdentifier(st.n, orgId)
         IN addProcessorsThenAutoLink(
                [st EXCEPT
                   !.n.processors = @ \cup {p},
                   !.n.identifier[p] = newId,
                   !.n.selected = @ \cup {p},
                   !.log = @ \o <<[type |-> "addProcessor", item |-> p, ok |-> TRUE],
                                  [type |-> "autoLink", item |-> p, ok |-> TRUE]>>,
                   !.processorIds = @ @@ (orgId :> newId)],
                ids \ {orgId})

\* the state of a paste: the network, the steps taken, the processors added
\* (in the order of the document) and the map from old to new identifiers
RECURSIVE addProcessors(_, _), materialize(_, _, _)

\* for (auto& p : processors) { network_->addProcessor(p); processorIds[orgId] = ... }
addProcessors(st, ids) ==
    IF ids = {} THEN st
    ELSE LET orgId == CHOOSE i \in ids : \A j \in ids : i <= j
             p == st.added[Cardinality(DOMAIN st.processorIds) + 1]
             newId == uniqueIdentifier(st.n, orgId)
         IN addProcessors([st EXCEPT
                             !.n.processors = @ \cup {p},
                             !.n.identifier[p] = newId,
                             !.n.selected = @ \cup {p},
                             !.log = Append(@, [type |-> "addProcessor", item |-> p,
                                                ok |-> TRUE]),
                             !.processorIds = @ @@ (orgId :> newId)],
                           ids \ {orgId})

\* materialize without updateProcessorID: the edges keep the identifiers of
\* the document
RECURSIVE materializeNoUpdate(_, _, _)
materializeNoUpdate(st, edges, list) ==
    IF edges = {} THEN st
    ELSE LET e == CHOOSE x \in edges : TRUE
             find(id) == {p \in st.n.processors : st.n.identifier[p] = id}
             found == find(e.src[1]) # {} /\ find(e.dst[1]) # {}
             from == <<CHOOSE p \in find(e.src[1]) : TRUE, e.src[2]>>
             to == <<CHOOSE p \in find(e.dst[1]) : TRUE, e.dst[2]>>
             isLink == list \in {"internalLink", "outLink", "inLink"}
             st1 == IF ~found THEN st
                    ELSE IF isLink
                    THEN [st EXCEPT !.n.links = @ \cup {[src |-> from, dst |-> to]}]
                    ELSE [st EXCEPT !.n.connections =
                                        @ \cup {[outport |-> from, inport |-> to]}]
         IN materializeNoUpdate([st1 EXCEPT !.log = Append(@, [type |-> list, item |-> e,
                                                               ok |-> found])],
                                edges \ {e}, list)

\* one of the five loops: the identifiers of the edge are updated
\* (updateProcessorID, updateSrcProcessorID, updateDstProcessorID), toConnection
\* or toLink looks the two ends up in the network and throws when one is
\* missing, which d.handleError() reports; else the connection or link is added
materialize(st, edges, list) ==
    IF edges = {} THEN st
    ELSE LET e == CHOOSE x \in edges : TRUE
             update(id) == IF id \in DOMAIN st.processorIds
                           THEN st.processorIds[id] ELSE id
             srcId == IF list \in {"internalConnection", "internalLink", "outLink"}
                      THEN update(e.src[1]) ELSE e.src[1]
             dstId == IF list \in {"internalConnection", "externalConnection",
                                    "internalLink", "inLink"}
                      THEN update(e.dst[1]) ELSE e.dst[1]
             find(id) == {p \in st.n.processors : st.n.identifier[p] = id}
             found == find(srcId) # {} /\ find(dstId) # {}
             from == <<CHOOSE p \in find(srcId) : TRUE, e.src[2]>>
             to == <<CHOOSE p \in find(dstId) : TRUE, e.dst[2]>>
             isLink == list \in {"internalLink", "outLink", "inLink"}
             st1 == IF ~found THEN st
                    ELSE IF isLink
                    THEN [st EXCEPT !.n.links = @ \cup {[src |-> from, dst |-> to]}]
                    ELSE [st EXCEPT !.n.connections =
                                        @ \cup {[outport |-> from, inport |-> to]}]
         IN materialize([st1 EXCEPT !.log = Append(@, [type |-> list, item |-> e,
                                                       ok |-> found])],
                        edges \ {e}, list)

\* deserialize without the try blocks around the items: the first error ends
\* the paste in the outer catch
deserializeAbortOnError(n, doc, callback) ==
    LET free == Procs \ n.processors
        RECURSIVE lowest(_, _)
        lowest(s, k) == IF k = 0 THEN <<>>
                        ELSE LET m == CHOOSE i \in s : \A j \in s : i <= j
                             IN <<m>> \o lowest(s \ {m}, k - 1)
        added == lowest(free, Cardinality(doc.processors))
        st0 == [n |-> [n EXCEPT !.selected = {}],
                log |-> IF callback
                        THEN <<[type |-> "callback", item |-> Range(added), ok |-> TRUE]>>
                        ELSE <<>>,
                added |-> added,
                processorIds |-> <<>>]
        st1 == addProcessors(st0, doc.processors)
        failed(st) == \E i \in DOMAIN st.log : ~st.log[i].ok
        try(st, edges, list) == IF failed(st) THEN st ELSE materialize(st, edges, list)
        st2 == try(st1, doc.connections.internal, "internalConnection")
        st3 == try(st2, doc.connections.external, "externalConnection")
        st4 == try(st3, doc.links.internal, "internalLink")
        st5 == try(st4, doc.links.out, "outLink")
        st6 == try(st5, doc.links.in, "inLink")
        RECURSIVE autoLink(_, _)
        autoLink(st, i) ==
            IF i > Len(added) THEN st
            ELSE autoLink([st EXCEPT !.log = Append(@, [type |-> "autoLink",
                                                        item |-> added[i], ok |-> TRUE])],
                          i + 1)
    IN IF failed(st6) THEN st6 ELSE autoLink(st6, 1)

\* void detail::PartialProcessorNetwork::deserialize(Deserializer& d); `callback`
\* tells whether the caller gave an offset callback
deserialize(n, doc, callback) ==
    LET free == Procs \ n.processors
        RECURSIVE lowest(_, _)
        lowest(s, k) == IF k = 0 THEN <<>>
                        ELSE LET m == CHOOSE i \in s : \A j \in s : i <= j
                             IN <<m>> \o lowest(s \ {m}, k - 1)
        added == lowest(free, Cardinality(doc.processors))
        st0 == [n |-> [n EXCEPT !.selected = {}],
                log |-> IF callback
                        THEN <<[type |-> "callback", item |-> Range(added), ok |-> TRUE]>>
                        ELSE <<>>,
                added |-> added,
                processorIds |-> <<>>]
        st1 == addProcessors(st0, doc.processors)
        st2 == materialize(st1, doc.connections.internal, "internalConnection")
        st3 == materialize(st2, doc.connections.external, "externalConnection")
        st4 == materialize(st3, doc.links.internal, "internalLink")
        st5 == materialize(st4, doc.links.out, "outLink")
        st6 == materialize(st5, doc.links.in, "inLink")
        RECURSIVE autoLink(_, _)
        autoLink(st, i) ==
            IF i > Len(added) THEN st
            ELSE autoLink([st EXCEPT !.log = Append(@, [type |-> "autoLink",
                                                        item |-> added[i], ok |-> TRUE])],
                          i + 1)
    IN autoLink(st6, 1)

\* ------------------------------------------------------------ program state
Cur == [constructed |-> constructed,
        properties_ |-> properties_,
        eventProperties_ |-> eventProperties_,
        compositeProperties_ |-> compositeProperties_,
        ownedProperties_ |-> ownedProperties_,
        observers |-> observers,
        pstate |-> pstate,
        ident |-> ident,
        kind |-> kind,
        owner_ |-> owner_,
        serMode |-> serMode,
        value |-> value,
        invalidationLevel_ |-> invalidationLevel_,
        propertyModified_ |-> propertyModified_,
        notes |-> <<>>,
        thrown |-> "none",
        ret |-> NULL]

\* dynamic_cast<Property*>(this) != nullptr
IsProperty(o) == o \in Props

ObserversOf(s, o) == IF o \in Owners THEN s.observers[o] ELSE {}

\* notifyObserversWillAddProperty / DidAdd / WillRemove / DidRemove: the call is
\* synchronous, so the record keeps what the observers see when it is made.
notify(s, type, o, p, index) ==
    [s EXCEPT !.notes = Append(@, [type |-> type, owner |-> o, prop |-> p,
                                   index |-> index,
                                   to |-> ObserversOf(s, o),
                                   listed |-> InSeq(p, s.properties_[o]),
                                   backlink |-> s.owner_[p],
                                   alive |-> s.pstate[p] = "live"])]

getPropertyByIdentifier(s, o, id) ==
    LET q == s.properties_[o]
        pos == FindPos(q, {p \in Props : s.ident[p] = id})
    IN IF pos <= Len(q) THEN q[pos] ELSE NULL

\* insertPropertyImpl with the position ignored: the property is put first
insertPropertyImplFront(s, o, index, p, owner) ==
    LET s1 == [s EXCEPT
                 !.properties_[o] = <<p>> \o @,
                 !.owner_[p] = o,
                 !.eventProperties_[o] =
                     IF s.kind[p] = "event" THEN Append(@, p) ELSE @,
                 !.compositeProperties_[o] =
                     IF s.kind[p] = "composite" THEN Append(@, p) ELSE @]
    IN IF owner
       THEN [s1 EXCEPT !.ownedProperties_[o] = Append(@, p),
                       !.serMode[p] = "All"]
       ELSE s1

insertPropertyImpl(s, o, index, p, owner) ==
    LET s1 == [s EXCEPT
                 !.properties_[o] = InsertAt(@, index + 1, p),
                 !.owner_[p] = o,
                 !.eventProperties_[o] =
                     IF s.kind[p] = "event" THEN Append(@, p) ELSE @,
                 !.compositeProperties_[o] =
                     IF s.kind[p] = "composite" THEN Append(@, p) ELSE @]
    IN IF owner
       THEN [s1 EXCEPT !.ownedProperties_[o] = Append(@, p),
                       !.serMode[p] = "All"]
       ELSE s1

\* insertProperty with the checks made after the property has been inserted
insertPropertyLateCheck(s, o, index0, p, owner) ==
    LET size == Len(s.properties_[o])
        index == IF index0 > size THEN size ELSE index0
        existing == getPropertyByIdentifier(s, o, s.ident[p])
        done == notify(insertPropertyImpl(notify(s, "willAdd", o, p, index),
                                          o, index, p, owner),
                       "didAdd", o, p, index)
    IN IF existing # NULL \/ (IsProperty(o) /\ o = p)
       THEN [done EXCEPT !.thrown = "Exception"]
       ELSE done

insertProperty(s, o, index0, p, owner) ==
    LET size == Len(s.properties_[o])
        index == IF index0 > size THEN size ELSE index0
        existing == getPropertyByIdentifier(s, o, s.ident[p])
    IN IF existing # NULL THEN [s EXCEPT !.thrown = "Exception"]
       ELSE IF IsProperty(o) /\ o = p THEN [s EXCEPT !.thrown = "Exception"]
       ELSE notify(insertPropertyImpl(notify(s, "willAdd", o, p, index),
                                      o, index, p, owner),
                   "didAdd", o, p, index)

\* std::unique_ptr<Property> releasing its object: the Property is destroyed.  A
\* CompositeProperty is a PropertyOwner, whose destructor clears it first.
RECURSIVE destroy(_, _), removePropertyImpl(_, _, _), clear(_, _)

destroy(s, p) ==
    LET s1 == IF s.kind[p] = "composite" THEN clear(s, p) ELSE s
    IN [s1 EXCEPT !.pstate[p] = "free", !.ident[p] = NoId, !.kind[p] = "plain",
                  !.owner_[p] = NULL, !.serMode[p] = "Default",
                  !.value[p] = DefaultValue,
                  !.invalidationLevel_[p] = Valid, !.propertyModified_[p] = FALSE]

\* removePropertyImpl that deletes an owned property before it notifies did-remove
removePropertyImplDeleteFirst(s, o, pos) ==
    IF pos > Len(s.properties_[o]) THEN [s EXCEPT !.ret = NULL]
    ELSE
      LET prop == s.properties_[o][pos]
          index == pos - 1
          s1 == notify(s, "willRemove", o, prop, index)
          s2 == [s1 EXCEPT !.eventProperties_[o] = Erase(@, prop),
                           !.compositeProperties_[o] = Erase(@, prop),
                           !.owner_[prop] = NULL,
                           !.properties_[o] = RemoveAt(@, pos)]
          owned == InSeq(prop, s2.ownedProperties_[o])
      IN IF owned
         THEN [notify(destroy([s2 EXCEPT !.ownedProperties_[o] = Erase(@, prop)], prop),
                      "didRemove", o, prop, index)
                 EXCEPT !.ret = NULL]
         ELSE [notify(s2, "didRemove", o, prop, index) EXCEPT !.ret = prop]

\* removePropertyImpl that leaves the EventProperty index as it is
removePropertyImplKeepEvent(s, o, pos) ==
    IF pos > Len(s.properties_[o]) THEN [s EXCEPT !.ret = NULL]
    ELSE
      LET prop == s.properties_[o][pos]
          index == pos - 1
          s1 == notify(s, "willRemove", o, prop, index)
          s2 == [s1 EXCEPT !.compositeProperties_[o] = Erase(@, prop),
                           !.owner_[prop] = NULL,
                           !.properties_[o] = RemoveAt(@, pos)]
          s3 == notify(s2, "didRemove", o, prop, index)
          owned == InSeq(prop, s3.ownedProperties_[o])
      IN IF owned
         THEN [destroy([s3 EXCEPT !.ownedProperties_[o] = Erase(@, prop)], prop)
                 EXCEPT !.ret = NULL]
         ELSE [s3 EXCEPT !.ret = prop]

\* removePropertyImpl returning the pointer also when it has destroyed the property
removePropertyImplKeepPtr(s, o, pos) ==
    IF pos > Len(s.properties_[o]) THEN [s EXCEPT !.ret = NULL]
    ELSE
      LET prop == s.properties_[o][pos]
          index == pos - 1
          s1 == notify(s, "willRemove", o, prop, index)
          s2 == [s1 EXCEPT !.eventProperties_[o] = Erase(@, prop),
                           !.compositeProperties_[o] = Erase(@, prop),
                           !.owner_[prop] = NULL,
                           !.properties_[o] = RemoveAt(@, pos)]
          s3 == notify(s2, "didRemove", o, prop, index)
          owned == InSeq(prop, s3.ownedProperties_[o])
      IN IF owned
         THEN [destroy([s3 EXCEPT !.ownedProperties_[o] = Erase(@, prop)], prop)
                 EXCEPT !.ret = prop]
         ELSE [s3 EXCEPT !.ret = prop]

\* `pos` is the iterator: a 1-based position, Len + 1 for end()
removePropertyImpl(s, o, pos) ==
    IF pos > Len(s.properties_[o]) THEN [s EXCEPT !.ret = NULL]
    ELSE
      LET prop == s.properties_[o][pos]
          index == pos - 1
          s1 == notify(s, "willRemove", o, prop, index)
          s2 == [s1 EXCEPT !.eventProperties_[o] = Erase(@, prop),
                           !.compositeProperties_[o] = Erase(@, prop),
                           !.owner_[prop] = NULL,
                           !.properties_[o] = RemoveAt(@, pos)]
          s3 == notify(s2, "didRemove", o, prop, index)
          owned == InSeq(prop, s3.ownedProperties_[o])
      IN IF owned
         THEN [destroy([s3 EXCEPT !.ownedProperties_[o] = Erase(@, prop)], prop)
                 EXCEPT !.ret = NULL]
         ELSE [s3 EXCEPT !.ret = prop]

clear(s, o) ==
    IF s.properties_[o] = <<>> THEN s
    ELSE clear(removePropertyImpl(s, o, Len(s.properties_[o])), o)

\* Property* removeProperty(std::string_view identifier)
removePropertyById(s, o, id) ==
    removePropertyImpl(s, o, FindPos(s.properties_[o], {p \in Props : s.ident[p] = id}))

\* Property* removeProperty(Property* property)
removePropertyByPtr(s, o, p) ==
    removePropertyImpl(s, o, FindPos(s.properties_[o], {p}))

\* removeProperty(size_t) with the range check off by one
removePropertyByIndexOffByOne(s, o, index) ==
    IF index > Len(s.properties_[o]) THEN [s EXCEPT !.thrown = "RangeException"]
    ELSE removePropertyImpl(s, o, index + 1)

\* Property* removeProperty(size_t index)
removePropertyByIndex(s, o, index) ==
    IF index >= Len(s.properties_[o]) THEN [s EXCEPT !.thrown = "RangeException"]
    ELSE removePropertyImpl(s, o, index + 1)

\* Property* insertProperty(size_t index, std::unique_ptr<Property> property):
\* when the inner insert throws the unique_ptr parameter destroys the candidate.
insertPropertyUnique(s, o, index, p) ==
    LET s1 == insertProperty(s, o, index, p, FALSE)
    IN IF s1.thrown # "none" THEN destroy(s1, p)
       ELSE [s1 EXCEPT !.serMode[p] = "All",
                       !.ownedProperties_[o] = Append(@, p),
                       !.ret = p]

\* move that puts the property back at the end of the list
moveToEnd(s, o, p, newIndex) ==
    LET q == s.properties_[o]
        pos == FindPos(q, {p})
    IN IF pos <= Len(q)
       THEN LET index == pos - 1
                s1 == notify(s, "willRemove", o, p, index)
                s2 == [s1 EXCEPT !.properties_[o] = RemoveAt(@, pos)]
                s3 == notify(s2, "didRemove", o, p, index)
                s4 == notify(s3, "willAdd", o, p, newIndex)
                s5 == [s4 EXCEPT !.properties_[o] = Append(@, p)]
                s6 == notify(s5, "didAdd", o, p, newIndex)
            IN [s6 EXCEPT !.ret = 1]
       ELSE [s EXCEPT !.ret = 0]

\* bool move(Property* property, size_t newIndex); ret is 1 for true, 0 for false
move(s, o, p, newIndex) ==
    LET q == s.properties_[o]
        pos == FindPos(q, {p})
    IN IF pos <= Len(q)
       THEN LET index == pos - 1
                s1 == notify(s, "willRemove", o, p, index)
                s2 == [s1 EXCEPT !.properties_[o] = RemoveAt(@, pos)]
                s3 == notify(s2, "didRemove", o, p, index)
                s4 == notify(s3, "willAdd", o, p, newIndex)
                s5 == [s4 EXCEPT !.properties_[o] = InsertAt(@, newIndex + 1, p)]
                s6 == notify(s5, "didAdd", o, p, newIndex)
            IN [s6 EXCEPT !.ret = 1]
       ELSE [s EXCEPT !.ret = 0]

\* -------------------------------------------------- construction and assignment
\* The slots of the application's own properties are not given to other objects
\* A path is a string: a sequence of characters, '.' between the segments
PathChars == {"x", "y", "."}
Paths == UNION {[1..n -> PathChars] : n \in 0..MaxPathLen}

\* the std::string_view as a string that is compared with getIdentifier()
RECURSIVE Str(_)
Str(chars) == IF chars = <<>> THEN "" ELSE Head(chars) \o Str(Tail(chars))

\* util::splitByFirst(path, '.'): the text before the first '.' and the text
\* after it, all of the path and nothing when it holds no '.'
splitByFirst(path) ==
    LET dots == {i \in 1..Len(path) : path[i] = "."}
        pos == IF dots = {} THEN Len(path) + 1
               ELSE CHOOSE i \in dots : \A j \in dots : i <= j
    IN [first |-> SubSeq(path, 1, pos - 1), rest |-> SubSeq(path, pos + 1, Len(path))]

\* Property* PropertyOwner::getPropertyByPath(std::string_view path) const
RECURSIVE getPropertyByPath(_, _, _)
getPropertyByPath(s, o, path) ==
    IF path = <<>> THEN NULL
    ELSE LET split == splitByFirst(path)
             comps == s.compositeProperties_[o]
             pos == FindPos(comps, {c \in Props : s.ident[c] = Str(split.first)})
         IN IF split.rest = <<>> THEN getPropertyByIdentifier(s, o, Str(split.first))
            ELSE IF pos <= Len(comps) THEN getPropertyByPath(s, comps[pos], split.rest)
            ELSE NULL

\* invalidate that stores the level it is given
invalidateAssign(s, o, level) == [s EXCEPT !.invalidationLevel_[o] = level]

\* void PropertyOwner::invalidate(InvalidationLevel invalidationLevel, Property*)
invalidate(s, o, level) ==
    [s EXCEPT !.invalidationLevel_[o] = IF @ >= level THEN @ ELSE level]

\* bool PropertyOwner::isValid() const
isValid(s, o) == s.invalidationLevel_[o] = Valid

RECURSIVE setValid(_, _), setValidLoop(_, _, _), propertySetValid(_, _)

\* Property::setValid() clears the modified flag; CompositeProperty::setValid()
\* does so and calls PropertyOwner::setValid() on itself
propertySetValid(s, p) ==
    LET s1 == [s EXCEPT !.propertyModified_[p] = FALSE]
    IN IF s.kind[p] = "composite" THEN setValid(s1, p) ELSE s1

\* for (auto& elem : properties_) elem->setValid();
setValidLoop(s, o, i) ==
    IF i > Len(s.properties_[o]) THEN s
    ELSE setValidLoop(propertySetValid(s, s.properties_[o][i]), o, i + 1)

\* void PropertyOwner::setValid()
setValid(s, o) == [setValidLoop(s, o, 1) EXCEPT !.invalidationLevel_[o] = Valid]

FreeSlots(s) == {q \in Props \ BaseProps : s.pstate[q] = "free"}

\* operator new: the lowest free slot of the heap
Alloc(s) == CHOOSE q \in FreeSlots(s) : \A r \in FreeSlots(s) : q <= r

\* Observable<T>::Observable(const Observable<T>&): the observers are not copied
ObservableCopy(obs) == {}

\* the observable base initialised with the observers of rhs
copyObservableKeep(s, rhs, dst) ==
    IF dst \in Owners /\ rhs \in Owners
    THEN [s EXCEPT !.observers[dst] = s.observers[rhs]]
    ELSE s

\* PropertyOwnerObservable{rhs} in the copy constructor's initializer list
copyObservable(s, rhs, dst) ==
    IF dst \in Owners /\ rhs \in Owners
    THEN [s EXCEPT !.observers[dst] = ObservableCopy(s.observers[rhs])]
    ELSE s

\* Observable<T>::operator=(Observable<T>&&): the observers of that now observe this
moveObservable(s, that, this) ==
    [s EXCEPT !.observers[this] = s.observers[that], !.observers[that] = {}]

\* the default of the `owner` parameter of addProperty(Property*, bool)
AddPropertyDefaultOwner == TRUE

\* void addProperty(Property* property, bool owner)
addProperty(s, o, p, owner) == insertProperty(s, o, Len(s.properties_[o]), p, owner)

\* Property* addProperty(std::unique_ptr<Property> property)
addPropertyUnique(s, o, p) == insertPropertyUnique(s, o, Len(s.properties_[o]), p)

\* the copy constructor iterating over all the properties of rhs
copySourceAll(s, rhs) == s.properties_[rhs]

\* The properties the copy constructor iterates over
copySource(s, rhs) == s.ownedProperties_[rhs]

RECURSIVE copyConstruct(_, _, _), copyLoop(_, _, _, _), clone(_, _)

\* Property::clone(): a new object with the same identifier, type, value and
\* serialization mode and no owner; a CompositeProperty copy-constructs its
\* PropertyOwner part.  ret is the new object.
clone(s, p) ==
    LET q == Alloc(s)
        s1 == [s EXCEPT !.pstate[q] = "live", !.ident[q] = s.ident[p],
                        !.kind[q] = s.kind[p], !.value[q] = s.value[p],
                        !.serMode[q] = s.serMode[p], !.owner_[q] = NULL,
                        !.propertyModified_[q] = s.propertyModified_[p]]
        s2 == IF s.kind[p] = "composite" THEN copyConstruct(s1, p, q) ELSE s1
    IN [s2 EXCEPT !.ret = q]

\* for (const auto& p : rhs.ownedProperties_) addProperty(p->clone());
copyLoop(s, todo, dst, i) ==
    IF i > Len(todo) \/ s.thrown # "none" THEN s
    ELSE LET s1 == clone(s, todo[i])
         IN copyLoop(addProperty(s1, dst, s1.ret, AddPropertyDefaultOwner),
                     todo, dst, i + 1)

\* PropertyOwner::PropertyOwner(const PropertyOwner& rhs), constructing dst
copyConstruct(s, rhs, dst) ==
    LET s1 == [copyObservable(s, rhs, dst) EXCEPT
                 !.properties_[dst] = <<>>, !.eventProperties_[dst] = <<>>,
                 !.compositeProperties_[dst] = <<>>, !.ownedProperties_[dst] = <<>>,
                 !.invalidationLevel_[dst] = s.invalidationLevel_[rhs]]
    IN copyLoop(s1, copySource(s1, rhs), dst, 1)

\* the loop without the std::erase calls on rhs
RECURSIVE moveLoopNoErase(_, _, _, _)
moveLoopNoErase(s, rhs, dst, i) ==
    IF i > Len(s.ownedProperties_[dst]) THEN s
    ELSE LET p == s.ownedProperties_[dst][i]
         IN moveLoopNoErase(insertPropertyImpl(s, dst, Len(s.properties_[dst]), p, FALSE),
                            rhs, dst, i + 1)

\* The loop of the move constructor and of the move assignment
RECURSIVE moveLoop(_, _, _, _)
moveLoop(s, rhs, dst, i) ==
    IF i > Len(s.ownedProperties_[dst]) THEN s
    ELSE LET p == s.ownedProperties_[dst][i]
             s1 == [s EXCEPT !.properties_[rhs] = Erase(@, p),
                             !.eventProperties_[rhs] = Erase(@, p),
                             !.compositeProperties_[rhs] = Erase(@, p)]
         IN moveLoop(insertPropertyImpl(s1, dst, Len(s1.properties_[dst]), p, FALSE),
                     rhs, dst, i + 1)

\* PropertyOwner::PropertyOwner(PropertyOwner&& rhs), constructing dst
moveConstruct(s, rhs, dst) ==
    LET s1 == [s EXCEPT
                 !.observers[dst] = {},
                 !.properties_[dst] = <<>>, !.eventProperties_[dst] = <<>>,
                 !.compositeProperties_[dst] = <<>>,
                 !.ownedProperties_[dst] = s.ownedProperties_[rhs],
                 !.ownedProperties_[rhs] = <<>>,
                 !.invalidationLevel_[dst] = s.invalidationLevel_[rhs]]
    IN moveObservable(clear(moveLoop(s1, rhs, dst, 1), rhs), rhs, dst)

\* PropertyOwner& PropertyOwner::operator=(PropertyOwner&& that)
moveAssign(s, this, that) ==
    IF this = that THEN s
    ELSE LET s1 == clear(s, this)
             s2 == [s1 EXCEPT !.ownedProperties_[this] = s1.ownedProperties_[that],
                              !.ownedProperties_[that] = <<>>]
         IN moveObservable(clear(moveLoop(s2, that, this, 1), that), that, this)

\* ----------------------------------------------------------- NetworkLock
\* A step of a function that works on the network
Step(type, item) == [type |-> type, item |-> item, ok |-> TRUE]

\* the steps that change nothing in the network
Quiet == {"lock", "unlock", "callback"}

\* NetworkLock and the evaluation of the network: the positions of a sequence
\* of steps after which the network is evaluated.  A change of the network
\* that is made while no lock is held is followed by an evaluation at once;
\* one made under a lock leaves the network modified, and the release of the
\* outermost lock then evaluates it once.
RECURSIVE evaluations(_, _, _, _)
evaluations(log, i, depth, modified) ==
    IF i > Len(log) THEN {}
    ELSE IF log[i].type = "lock" THEN evaluations(log, i + 1, depth + 1, modified)
    ELSE IF log[i].type = "unlock"
    THEN IF depth = 1 /\ modified THEN {i} \cup evaluations(log, i + 1, 0, FALSE)
         ELSE evaluations(log, i + 1, depth - 1, modified)
    ELSE IF log[i].type \in Quiet \/ ~log[i].ok
    THEN evaluations(log, i + 1, depth, modified)
    ELSE IF depth = 0 THEN {i} \cup evaluations(log, i + 1, 0, FALSE)
    ELSE evaluations(log, i + 1, depth, TRUE)

\* ------------------------------------------------------- replaceProcessor
\* Processor p of the network is the PropertyOwner 100 + p.  The inports and
\* the outports of a processor are numbered; n.inports[p][k] and
\* n.outports[p][k] are the data types of its k-th inport and outport.
PropertyOwnerOf(p) == 100 + p

\* Inport::canConnectTo(outport): not to a port of its own processor, and only
\* to a port of its data type
canConnectTo(n, inport, outport) ==
    /\ inport[1] # outport[1]
    /\ n.inports[inport[1]][inport[2]] = n.outports[outport[1]][outport[2]]

\* The two loops that collect newConnections, over the inports (in = TRUE) and
\* over the outports of newProcessor: the k-th new port takes the connections
\* of the first remaining old port all of whose peers it can connect to
RECURSIVE transferConnections(_, _, _, _, _, _, _)
transferConnections(n, newp, oldp, in, k, oldPorts, acc) ==
    IF k > Len(IF in THEN n.inports[newp] ELSE n.outports[newp]) THEN acc
    ELSE LET newPort == <<newp, k>>
             peers(j) == IF in
                         THEN {c.outport : c \in {x \in n.connections : x.inport = <<oldp, j>>}}
                         ELSE {c.inport : c \in {x \in n.connections : x.outport = <<oldp, j>>}}
             all_of(j) == \A x \in peers(j) : IF in THEN canConnectTo(n, newPort, x)
                                                 ELSE canConnectTo(n, x, newPort)
             it == FindPos(oldPorts, {j \in Range(oldPorts) : all_of(j)})
         IN IF it <= Len(oldPorts)
            THEN transferConnections(
                     n, newp, oldp, in, k + 1, Erase(oldPorts, oldPorts[it]),
                     acc \cup {IF in THEN [outport |-> x, inport |-> newPort]
                               ELSE [outport |-> newPort, inport |-> x] :
                                   x \in peers(oldPorts[it])})
            ELSE transferConnections(n, newp, oldp, in, k + 1, oldPorts, acc)

\* copyValues without the comparison of the class identifiers
RECURSIVE copyValuesAnyClass(_, _, _, _)
copyValuesAnyClass(s, old, new, i) ==
    IF i > Len(s.properties_[old]) THEN s
    ELSE LET oldProp == s.properties_[old][i]
             newProp == getPropertyByIdentifier(s, new, s.ident[oldProp])
         IN copyValuesAnyClass(IF newProp # NULL
                               THEN [s EXCEPT !.value[newProp] = s.value[oldProp]]
                               ELSE s,
                               old, new, i + 1)

\* for (auto* oldProp : oldProcessor->getProperties()): newProp->set(oldProp)
\* when newProcessor has a property of that identifier and class
RECURSIVE copyValues(_, _, _, _)
copyValues(s, old, new, i) ==
    IF i > Len(s.properties_[old]) THEN s
    ELSE LET oldProp == s.properties_[old][i]
             newProp == getPropertyByIdentifier(s, new, s.ident[oldProp])
         IN copyValues(IF newProp # NULL /\ s.kind[newProp] = s.kind[oldProp]
                       THEN [s EXCEPT !.value[newProp] = s.value[oldProp]]
                       ELSE s,
                       old, new, i + 1)

\* Property::getPath: the identifier of the processor and the identifiers down
\* to the property, with '.' between them
RECURSIVE getPath(_, _)
getPath(s, q) ==
    IF s.owner_[q] \in Props THEN getPath(s, s.owner_[q]) \o <<".", s.ident[q]>>
    ELSE <<"p", ".", s.ident[q]>>

\* "Move property links to the new processor": the links that are added
moveLinks(s, n, newp, oldp) ==
    LET links == {l \in n.links : oldp \in {l.src[1], l.dst[1]}}
        byPath(q) == getPropertyByPath(s, PropertyOwnerOf(newp),
                                       splitByFirst(getPath(s, q)).rest)
    IN {[src |-> l.src, dst |-> <<newp, byPath(l.dst[2])>>] :
            l \in {x \in links : x.dst[1] = oldp /\ byPath(x.dst[2]) # NULL}}
       \cup
       {[src |-> <<newp, byPath(l.src[2])>>, dst |-> l.dst] :
            l \in {x \in links : x.dst[1] # oldp /\ byPath(x.src[2]) # NULL}}

\* ProcessorNetwork::removeProcessor: the processor leaves the network with its
\* connections and its links
removeProcessor(n, p) ==
    [n EXCEPT !.processors = @ \ {p}, !.selected = @ \ {p}, !.sinks = @ \ {p},
              !.identifier[p] = NULL,
              !.connections = {c \in @ : p \notin {c.outport[1], c.inport[1]}},
              !.inactive = {c \in @ : p \notin {c.outport[1], c.inport[1]}},
              !.links = {l \in @ : p \notin {l.src[1], l.dst[1]}}]

\* replaceProcessor without the final setIdentifier
replaceProcessorKeepIdentifier(s, n, newp, oldp, id) ==
    LET n1 == [n EXCEPT !.processors = @ \cup {newp},
                        !.identifier[newp] = uniqueIdentifier(n, id)]
        ports(q) == [j \in 1..Len(q) |-> j]
        newConnections ==
            transferConnections(n1, newp, oldp, TRUE, 1, ports(n1.inports[oldp]), {})
            \cup transferConnections(n1, newp, oldp, FALSE, 1, ports(n1.outports[oldp]), {})
        s1 == copyValues(s, PropertyOwnerOf(oldp), PropertyOwnerOf(newp), 1)
        n2 == [n1 EXCEPT !.links = @ \cup moveLinks(s1, n1, newp, oldp)]
        n3 == removeProcessor(n2, oldp)
        moved == moveLinks(s1, n1, newp, oldp)
        log == <<Step("addProcessor", newp), Step("lock", NULL)>>
               \o (IF moved = {} THEN <<>> ELSE <<Step("addLink", moved)>>)
               \o <<Step("removeProcessor", oldp)>>
               \o (IF newConnections = {} THEN <<>>
                   ELSE <<Step("addConnection", newConnections)>>)
    IN [s |-> s1, n |-> [n3 EXCEPT !.connections = @ \cup newConnections], ret |-> oldp,
        log |-> log \o <<Step("unlock", NULL)>>]

\* std::shared_ptr<Processor> replaceProcessor(network, newProcessor, oldProcessor):
\* the overload that adds newProcessor, whose identifier is id, to the network
\* and then the one that rewires
replaceProcessor(s, n, newp, oldp, id) ==
    LET n1 == [n EXCEPT !.processors = @ \cup {newp},
                        !.identifier[newp] = uniqueIdentifier(n, id)]
        ports(q) == [j \in 1..Len(q) |-> j]
        newConnections ==
            transferConnections(n1, newp, oldp, TRUE, 1, ports(n1.inports[oldp]), {})
            \cup transferConnections(n1, newp, oldp, FALSE, 1, ports(n1.outports[oldp]), {})
        s1 == copyValues(s, PropertyOwnerOf(oldp), PropertyOwnerOf(newp), 1)
        n2 == [n1 EXCEPT !.links = @ \cup moveLinks(s1, n1, newp, oldp)]
        n3 == removeProcessor(n2, oldp)
        moved == moveLinks(s1, n1, newp, oldp)
        log == <<Step("addProcessor", newp), Step("lock", NULL)>>
               \o (IF moved = {} THEN <<>> ELSE <<Step("addLink", moved)>>)
               \o <<Step("removeProcessor", oldp)>>
               \o (IF newConnections = {} THEN <<>>
                   ELSE <<Step("addConnection", newConnections)>>)
    IN [s |-> s1,
        n |-> [n3 EXCEPT !.connections = @ \cup newConnections,
                         !.identifier[newp] = n.identifier[oldp]],
        ret |-> oldp,
        log |-> log \o <<Step("setIdentifier", newp), Step("unlock", NULL)>>]

\* addProcessorOnConnection that adds the processor before it looks for the
\* ports
addProcessorOnConnectionEager(n, p, c, shared, id) ==
    LET inports == {k \in 1..Len(n.inports[p]) : canConnectTo(n, <<p, k>>, c.outport)}
        outports == {k \in 1..Len(n.outports[p]) : canConnectTo(n, c.inport, <<p, k>>)}
        inport == <<p, CHOOSE k \in inports : \A j \in inports : k <= j>>
        outport == <<p, CHOOSE k \in outports : \A j \in outports : k <= j>>
        n1 == IF shared
              THEN [n EXCEPT !.processors = @ \cup {p},
                             !.identifier[p] = uniqueIdentifier(n, id)]
              ELSE n
        added == {[outport |-> c.outport, inport |-> inport],
                  [outport |-> outport, inport |-> c.inport]}
    IN IF inports # {} /\ outports # {}
       THEN [n |-> [n1 EXCEPT !.connections = (@ \ {c}) \cup added,
                              !.inactive = @ \ {c}],
             ret |-> TRUE,
             log |-> <<Step("lock", NULL)>>
                     \o (IF shared THEN <<Step("addProcessor", p)>> ELSE <<>>)
                     \o <<Step("removeConnection", c),
                          Step("addConnection", [outport |-> c.outport, inport |-> inport]),
                          Step("addConnection", [outport |-> outport, inport |-> c.inport]),
                          Step("unlock", NULL)>>]
       ELSE [n |-> n1, ret |-> FALSE, log |-> <<>>]

\* bool addProcessorOnConnection(network, processor, connection): the overload
\* that takes a std::shared_ptr adds the processor, whose identifier is id, to
\* the network (shared = TRUE); the other one is given a processor by reference
addProcessorOnConnection(n, p, c, shared, id) ==
    LET inports == {k \in 1..Len(n.inports[p]) : canConnectTo(n, <<p, k>>, c.outport)}
        outports == {k \in 1..Len(n.outports[p]) : canConnectTo(n, c.inport, <<p, k>>)}
        inport == <<p, CHOOSE k \in inports : \A j \in inports : k <= j>>
        outport == <<p, CHOOSE k \in outports : \A j \in outports : k <= j>>
        n1 == IF shared
              THEN [n EXCEPT !.processors = @ \cup {p},
                             !.identifier[p] = uniqueIdentifier(n, id)]
              ELSE n
        added == {[outport |-> c.outport, inport |-> inport],
                  [outport |-> outport, inport |-> c.inport]}
    IN IF inports # {} /\ outports # {}
       THEN [n |-> [n1 EXCEPT !.connections = (@ \ {c}) \cup added,
                              !.inactive = @ \ {c}],
             ret |-> TRUE,
             log |-> <<Step("lock", NULL)>>
                     \o (IF shared THEN <<Step("addProcessor", p)>> ELSE <<>>)
                     \o <<Step("removeConnection", c),
                          Step("addConnection", [outport |-> c.outport, inport |-> inport]),
                          Step("addConnection", [outport |-> outport, inport |-> c.inport]),
                          Step("unlock", NULL)>>]
       ELSE [n |-> n, ret |-> FALSE, log |-> <<>>]

\* ---------------------------------------------------------- serialization
\* bool Property::needsSerialization(): the value is not the default one, or
\* the mode is PropertySerializationMode::All
needsSerialization(s, p) == s.serMode[p] = "All" \/ s.value[p] # DefaultValue

\* what a Property writes of itself
PropertyElement(s, p) == [id |-> s.ident[p], kind |-> s.kind[p], value |-> s.value[p]]

\* void PropertyOwner::serialize(Serializer& s) const: the document has the
\* identifiers of the owned properties and the properties that need
\* serialization, both in the order of their containers
serializeOwner(s, o) ==
    LET written == SelectSeq(s.properties_[o], LAMBDA p : needsSerialization(s, p))
    IN [owned |-> [i \in DOMAIN s.ownedProperties_[o] |->
                       s.ident[s.ownedProperties_[o][i]]],
        properties |-> [i \in DOMAIN written |-> PropertyElement(s, written[i])]]

\* the "Property" element number i (from 0) of the document is read: into the
\* property of that identifier when the owner has one, which onMove then puts
\* at i; else, when the identifier is one of the owned ones, into a property
\* that the factory makes and onNew inserts at i as owned
deserializeItem(s, o, doc, i) ==
    LET item == doc.properties[i + 1]
        p == getPropertyByIdentifier(s, o, item.id)
        q == Alloc(s)
    IN IF p # NULL
       THEN LET s1 == [s EXCEPT !.value[p] = item.value]
            IN IF FindPos(s1.properties_[o], {p}) # i + 1 THEN move(s1, o, p, i) ELSE s1
       ELSE IF InSeq(item.id, doc.owned) /\ FreeSlots(s) # {}
       THEN insertProperty([s EXCEPT !.pstate[q] = "live", !.ident[q] = item.id,
                                     !.kind[q] = item.kind, !.value[q] = item.value],
                           o, i, q, TRUE)
       ELSE s

\* onRemove(id) for an identifier of the owner that the document does not
\* have: an owned property is removed, another one in mode Default is reset
onRemove(s, o, id) ==
    LET p == getPropertyByIdentifier(s, o, id)
    IN IF \E op \in Range(s.ownedProperties_[o]) : s.ident[op] = id
       THEN removePropertyById(s, o, id)
       ELSE IF p # NULL /\ s.serMode[p] = "Default"
       THEN [s EXCEPT !.value[p] = DefaultValue]
       ELSE s

RECURSIVE deserializeLoop(_, _, _, _), onRemoveLoop(_, _, _)
deserializeLoop(s, o, doc, i) ==
    IF i >= Len(doc.properties) THEN s
    ELSE deserializeLoop(deserializeItem(s, o, doc, i), o, doc, i + 1)

onRemoveLoop(s, o, toRemove) ==
    IF toRemove = <<>> THEN s
    ELSE onRemoveLoop(onRemove(s, o, Head(toRemove)), o, Tail(toRemove))

\* void PropertyOwner::deserialize(Deserializer& d), for a document of the
\* current version
deserializeOwner(s, o, doc) ==
    LET inDoc == {doc.properties[i].id : i \in DOMAIN doc.properties}
        before == [i \in DOMAIN s.properties_[o] |-> s.ident[s.properties_[o][i]]]
        toRemove == SelectSeq(before, LAMBDA id : id \notin inDoc)
    IN onRemoveLoop(deserializeLoop(s, o, doc, 0), o, toRemove)

\* --------------------------------------------------------- ModuleManager
\* A ModuleContainer: the identifier of the module, the dependencies
\* (name, version), the version and whether it was built for the current core
\* version that its factory object declares, whether createModule throws,
\* whether module and library are protected, and whether the module instance
\* exists and the library is loaded.
ModuleIds == 1..3
MaxModules == 3

\* the ModuleManager of an application that has registered no module, and no
\* CallBackList
InitApp ==
    /\ moduleManager = [inviwoModules_ |-> <<>>, runtimeModuleReloading_ |-> TRUE,
                        libraries |-> <<>>]
    /\ callbacks = <<>>
    /\ tf = <<>>

\* the helper lambda of topologicalSort and its loop over the dependencies, in
\* the order of their names
RECURSIVE moduleSortHelper(_, _, _), moduleSortEach(_, _, _)
moduleSortHelper(containers, lname, st) ==
    LET found == {i \in DOMAIN containers : containers[i].identifier = lname}
        it == CHOOSE i \in found : \A j \in found : i <= j
    IN IF st.thrown # "none" THEN st
       ELSE IF found = {} THEN [st EXCEPT !.thrown = "Missing module dependency"]
       ELSE IF lname \in st.visited THEN st
       ELSE IF lname \in st.tmpVisited
       THEN [st EXCEPT !.thrown = "Module Dependency graph is not a DAG"]
       ELSE LET st1 == moduleSortEach(containers,
                                      {d.name : d \in containers[it].dependencies},
                                      [st EXCEPT !.tmpVisited = @ \cup {lname}])
            IN IF st1.thrown # "none" THEN st1
               ELSE [st1 EXCEPT !.visited = @ \cup {lname}, !.sorted = Append(@, lname)]

moduleSortEach(containers, names, st) ==
    IF names = {} THEN st
    ELSE LET lname == CHOOSE x \in names : \A y \in names : x <= y
         IN moduleSortEach(containers, names \ {lname},
                           moduleSortHelper(containers, lname, st))

\* void topologicalSort(std::vector<ModuleContainer>& containers) of
\* modulemanager.cpp: the batch in its new order, or what is thrown
moduleTopologicalSort(containers) ==
    LET RECURSIVE loop(_, _)
        loop(i, st) == IF i > Len(containers) THEN st
                       ELSE loop(i + 1, moduleSortHelper(containers,
                                                         containers[i].identifier, st))
        st == loop(1, [visited |-> {}, tmpVisited |-> {}, sorted |-> <<>>,
                       thrown |-> "none"])
        at(id) == CHOOSE i \in DOMAIN containers : containers[i].identifier = id
    IN IF st.thrown # "none" THEN [containers |-> containers, thrown |-> st.thrown]
       ELSE [containers |-> [k \in DOMAIN st.sorted |-> containers[at(st.sorted[k])]],
             thrown |-> "none"]

\* InviwoModuleFactoryObject* ModuleManager::getFactoryObject(identifier): the
\* position in inviwoModules_, 0 for nullptr
getFactoryObject(mm, identifier) ==
    LET found == {i \in DOMAIN mm.inviwoModules_ :
                      mm.inviwoModules_[i].identifier = identifier}
    IN IF found = {} THEN 0 ELSE CHOOSE i \in found : \A j \in found : i <= j

\* InviwoModule* ModuleManager::getModuleByIdentifier(identifier) is not null
getModuleByIdentifier(mm, identifier) ==
    /\ getFactoryObject(mm, identifier) # 0
    /\ mm.inviwoModules_[getFactoryObject(mm, identifier)].module

\* bool ModuleManager::checkDependencies(const InviwoModuleFactoryObject& obj)
checkDependencies(mm, obj) ==
    /\ obj.coreVersionEqual
    /\ \A dep \in obj.dependencies :
           LET depObj == getFactoryObject(mm, dep.name)
           IN /\ depObj # 0
              /\ getModuleByIdentifier(mm, dep.name)
              /\ mm.inviwoModules_[depObj].version = obj.version

\* the loop of registerModules over the sorted batch
RECURSIVE registerLoop(_, _, _, _)
registerLoop(mm, log, containers, i) ==
    IF i > Len(containers) THEN [mm |-> mm, log |-> log]
    ELSE LET cont == containers[i]
         IN IF getModuleByIdentifier(mm, cont.identifier) \/ ~checkDependencies(mm, cont)
            THEN registerLoop(mm, log, containers, i + 1)
            ELSE IF cont.fails
            THEN registerLoop(mm, Append(log, [Step("createModule", cont.identifier)
                                                  EXCEPT !.ok = FALSE]),
                              containers, i + 1)
            ELSE registerLoop([mm EXCEPT !.inviwoModules_ =
                                             Append(@, [cont EXCEPT !.module = TRUE])],
                              Append(log, Step("createModule", cont.identifier)),
                              containers, i + 1)

\* void ModuleManager::registerModules(std::vector<ModuleContainer> inviwoModules)
registerModules(mm, inviwoModules) ==
    LET sorted == moduleTopologicalSort(inviwoModules)
        r == registerLoop(mm, <<>>, sorted.containers, 1)
    IN IF sorted.thrown # "none" THEN [mm |-> mm, log |-> <<>>, thrown |-> sorted.thrown]
       ELSE [mm |-> r.mm, log |-> Append(r.log, Step("onModulesDidRegister", NULL)),
             thrown |-> "none"]

\* ProcessorNetwork::clear(): every processor, connection and link is removed
clearNetwork(n) == [NoNetwork EXCEPT !.identifier = [p \in DOMAIN n.identifier |-> NULL]]

\* the steps of one loop of reloadModules over inviwoModules_, from position i
\* in direction d: which containers it acts on, and what it does to them
RECURSIVE reloadLoop(_, _, _, _, _)
reloadLoop(r, type, failing, i, d) ==
    IF i < 1 \/ i > Len(r.conts) THEN r
    ELSE LET cont == r.conts[i]
             skip == IF type \in {"resetModule", "createModule"}
                     THEN cont.protectedModule ELSE cont.protectedLibrary
             ok == ~(type = "createModule" /\ cont.identifier \in failing)
             after == CASE type = "resetModule" -> [cont EXCEPT !.module = FALSE]
                        [] type = "unload" -> [cont EXCEPT !.loaded = FALSE]
                        [] type = "load" -> [cont EXCEPT !.loaded = TRUE]
                        [] type = "createModule" -> [cont EXCEPT !.module = ok]
         IN IF skip THEN reloadLoop(r, type, failing, i + d, d)
            ELSE reloadLoop([conts |-> [r.conts EXCEPT ![i] = after],
                             log |-> Append(r.log, [Step(type, i) EXCEPT !.ok = ok])],
                            type, failing, i + d, d)

\* reloadModules that restores nothing when the workspace cannot be saved
reloadModulesTearDownFirst(mm, n, save, load, failing) ==
    LET r1 == reloadLoop([conts |-> mm.inviwoModules_,
                          log |-> <<Step("clear", NULL), Step("onModulesWillUnregister", NULL)>>],
                         "resetModule", failing, Len(mm.inviwoModules_), -1)
    IN [mm |-> [mm EXCEPT !.inviwoModules_ = r1.conts], n |-> clearNetwork(n),
        log |-> r1.log, thrown |-> IF save = "Exception" THEN save ELSE "none"]

\* void ModuleManager::reloadModules(): `save` and `load` are what
\* WorkspaceManager::save and load do ("ok", or the exception they throw),
\* `failing` the modules whose createModule throws.  The result is the
\* manager, the network, the steps taken, and what propagates to the caller.
reloadModules(mm, n, save, load, failing) ==
    LET len == Len(mm.inviwoModules_)
        r0 == [conts |-> mm.inviwoModules_,
               log |-> <<Step("save", NULL), Step("clear", NULL),
                         Step("onModulesWillUnregister", NULL)>>]
        r1 == reloadLoop(r0, "resetModule", failing, len, -1)
        r2 == reloadLoop(r1, "unload", failing, len, -1)
        r3 == reloadLoop(r2, "load", failing, 1, 1)
        r4 == reloadLoop(r3, "createModule", failing, 1, 1)
        log == Append(r4.log, Step("onModulesDidRegister", NULL))
        mm4 == [mm EXCEPT !.inviwoModules_ = r4.conts]
    IN IF ~mm.runtimeModuleReloading_
       THEN [mm |-> mm, n |-> n, log |-> <<>>, thrown |-> "none"]
       ELSE IF save = "SerializationException"
       THEN [mm |-> mm, n |-> n, log |-> <<[Step("save", NULL) EXCEPT !.ok = FALSE]>>,
             thrown |-> "none"]
       ELSE IF save # "ok"
       THEN [mm |-> mm, n |-> n, log |-> <<[Step("save", NULL) EXCEPT !.ok = FALSE]>>,
             thrown |-> save]
       ELSE IF load = "ok"
       THEN [mm |-> mm4, n |-> n, log |-> Append(log, Step("load", NULL)),
             thrown |-> "none"]
       ELSE [mm |-> mm4, n |-> clearNetwork(n),
             log |-> Append(log, [Step("load", NULL) EXCEPT !.ok = FALSE]),
             thrown |-> IF load = "SerializationException" THEN "none" ELSE load]

\* ----------------------------------------------------------- CallBackList
\* `callbacks` holds the CallBackList objects: per list whether it is
\* constructed, callbacksBlocked_, callBackList_ (the shared_ptrs, which own the
\* callbacks) and dispatcher_ (the callbacks the Dispatcher refers to, by
\* weak_ptr), and the number of callbacks created so far.
ListIds == {1, 2}
MaxCallbacks == 3
MaxBlocked == 2

NoList == [constructed |-> FALSE, callbacksBlocked_ |-> 0, callBackList_ |-> <<>>,
           dispatcher_ |-> <<>>]

\* a callback lives as long as a shared_ptr to it is held by some list
alive(c, cb) ==
    \E l \in ListIds : c.lists[l].constructed /\ InSeq(cb, c.lists[l].callBackList_)

Without(q, x) == SelectSeq(q, LAMBDA y : y # x)

\* Dispatcher::invoke: the callbacks it refers to that are still alive, in the
\* order they were added
dispatcherInvoke(c, l) == SelectSeq(c.lists[l].dispatcher_, LAMBDA cb : alive(c, cb))

\* void CallBackList::invokeAll() const: the callbacks invoked
invokeAll(c, l) ==
    IF c.lists[l].callbacksBlocked_ = 0 THEN dispatcherInvoke(c, l) ELSE <<>>

\* const BaseCallBack* CallBackList::addLambdaCallback(std::function<void()>)
addLambdaCallback(c, l) ==
    [c EXCEPT !.next = @ + 1,
              !.lists[l].dispatcher_ = Append(@, c.next),
              !.lists[l].callBackList_ = Append(@, c.next)]

\* bool CallBackList::remove(const BaseCallBack* callback)
removeCallback(c, l, cb) ==
    [c |-> [c EXCEPT !.lists[l].callBackList_ = Without(@, cb)],
     ret |-> InSeq(cb, c.lists[l].callBackList_)]

\* void CallBackList::clear()
clearCallbacks(c, l) == [c EXCEPT !.lists[l].callBackList_ = <<>>]

\* CallBackList(const CallBackList& rhs) : callBackList_{}, dispatcher_{rhs.dispatcher_}
copyConstructList(c, dst, rhs) ==
    [c EXCEPT !.lists[dst] = [constructed |-> TRUE, callbacksBlocked_ |-> 0,
                              callBackList_ |-> <<>>,
                              dispatcher_ |-> c.lists[rhs].dispatcher_]]

\* CallBackList(CallBackList&&) = default: the members are moved one by one
moveConstructList(c, dst, rhs) ==
    [c EXCEPT !.lists[dst] = [c.lists[rhs] EXCEPT !.constructed = TRUE],
              !.lists[rhs].callBackList_ = <<>>,
              !.lists[rhs].dispatcher_ = <<>>]

\* CallBackList& operator=(const CallBackList& that)
assignConst(c, this, that) ==
    IF this = that THEN c
    ELSE [c EXCEPT !.lists[this].callBackList_ = <<>>,
                   !.lists[this].dispatcher_ = c.lists[that].dispatcher_]

\* CallBackList& operator=(CallBackList&) = default: the members are assigned
\* one by one
assignDefault(c, this, that) == [c EXCEPT !.lists[this] = c.lists[that]]

\* the assignment `this = that`: a non-const lvalue selects
\* operator=(CallBackList&), a const lvalue or an rvalue (there is no move
\* assignment operator) selects operator=(const CallBackList&)
assign(c, this, that, category) ==
    IF category = "lvalue" THEN assignDefault(c, this, that) ELSE assignConst(c, this, that)

\* ------------------------------------------------------------------- actions
\* A call: the method, the object it is called on, its pointer argument and its
\* index argument
Call(op, o, p, index) == [op |-> op, owner |-> o, arg |-> p, index |-> index]

\* the program state after a call becomes the state; `last` keeps the call
Commit(s, call) ==
    /\ constructed' = s.constructed
    /\ properties_' = s.properties_
    /\ eventProperties_' = s.eventProperties_
    /\ compositeProperties_' = s.compositeProperties_
    /\ ownedProperties_' = s.ownedProperties_
    /\ observers' = s.observers
    /\ pstate' = s.pstate
    /\ ident' = s.ident
    /\ kind' = s.kind
    /\ owner_' = s.owner_
    /\ serMode' = s.serMode
    /\ value' = s.value
    /\ invalidationLevel_' = s.invalidationLevel_
    /\ propertyModified_' = s.propertyModified_
    /\ network' = network
    /\ clipboard' = clipboard
    /\ UNCHANGED appVars
    /\ notes' = s.notes
    /\ last' = [op |-> call.op, owner |-> call.owner, arg |-> call.arg,
                index |-> call.index, ret |-> s.ret, thrown |-> s.thrown]

\* The state after construction: the PropertyOwner objects in `made` exist and are
\* empty, the application's properties in `base` exist and belong to nobody.
InitWith(made, base) ==
    /\ constructed = [o \in Owners |-> o \in made]
    /\ properties_ = [o \in OwnerIds |-> <<>>]
    /\ eventProperties_ = [o \in OwnerIds |-> <<>>]
    /\ compositeProperties_ = [o \in OwnerIds |-> <<>>]
    /\ ownedProperties_ = [o \in OwnerIds |-> <<>>]
    /\ observers = [o \in Owners |-> {}]
    /\ pstate = [p \in Props |-> IF p \in base THEN "live" ELSE "free"]
    /\ ident = [p \in Props |-> IF p \in base THEN BaseIdent(p) ELSE NoId]
    /\ kind = [p \in Props |-> IF p \in base THEN BaseKind(p) ELSE "plain"]
    /\ owner_ = [p \in Props |-> NULL]
    /\ serMode = [p \in Props |-> "Default"]
    /\ value = [p \in Props |-> DefaultValue]
    /\ invalidationLevel_ = [o \in OwnerIds |-> Valid]
    /\ propertyModified_ = [p \in Props |-> FALSE]
    /\ notes = <<>>
    /\ last = [op |-> "init", owner |-> NULL, arg |-> NULL, index |-> 0,
               ret |-> NULL, thrown |-> "none"]

Init == InitWith({101}, BaseProps) /\ network = NoNetwork /\ clipboard = <<>> /\ InitApp

\* objects a method can be called on
IsOwner(o) ==
    \/ o \in Owners /\ constructed[o]
    \/ o \in Props /\ pstate[o] = "live" /\ kind[o] = "composite"

OwnedBy(p) == {o \in OwnerIds : InSeq(p, ownedProperties_[o])}
ListedIn(p) == {o \in OwnerIds : InSeq(p, properties_[o])}

\* The callers modelled keep composites one level deep and small: a
\* CompositeProperty is given one of the CompositeChildren (or itself, which the
\* owner refuses).
CompositeChildren == {1, 2}
Nesting(o, p) == o \in Props => (p \in CompositeChildren \/ p = o)

\* Properties 1 and 4 are members of application objects: they are passed by
\* reference (owner = false) and nobody deletes them.  Every other property is on
\* the heap and is passed together with its ownership.
MemberProps == {1, 4}

Usable(o, p) == IsOwner(o) /\ pstate[p] = "live" /\ Nesting(o, p)

\* A reference to a member property; other owners may list it as well
CanReference(o, p) == Usable(o, p) /\ p \in MemberProps

\* A raw pointer to a heap property that no other owner lists or owns
CanHandOver(o, p) ==
    /\ Usable(o, p) /\ p \notin MemberProps
    /\ OwnedBy(p) \subseteq {o} /\ ListedIn(p) \subseteq {o}

\* A std::unique_ptr: the caller is the only one that knows the heap property
CanGiveUnique(o, p) ==
    /\ Usable(o, p) /\ p \notin MemberProps /\ p # o
    /\ OwnedBy(p) = {} /\ ListedIn(p) = {}

\* PropertyOwner::PropertyOwner()
DefaultConstruct(o) ==
    /\ o \in Owners /\ ~constructed[o]
    /\ Commit([Cur EXCEPT !.constructed[o] = TRUE, !.invalidationLevel_[o] = Valid],
              Call("construct", o, NULL, 0))

\* PropertyOwner::~PropertyOwner()
Destruct(o) ==
    /\ o \in Owners /\ constructed[o]
    /\ Commit([clear(Cur, o) EXCEPT !.constructed[o] = FALSE, !.observers[o] = {},
                                    !.invalidationLevel_[o] = Valid],
              Call("destruct", o, NULL, 0))

\* Property::set: the property takes a new value
SetValue(p, v) ==
    /\ pstate[p] = "live" /\ value[p] # v
    /\ Commit([Cur EXCEPT !.value[p] = v], Call("set", owner_[p], p, 0))

\* Observable<T>::addObserver
AddObserver(o, ob) ==
    /\ o \in Owners /\ constructed[o] /\ ob \notin observers[o]
    /\ Commit([Cur EXCEPT !.observers[o] = @ \cup {ob}], Call("addObserver", o, NULL, 0))

\* void addProperty(Property* property, bool owner)
AddProperty(o, p, owner) ==
    /\ IF owner THEN CanHandOver(o, p) ELSE CanReference(o, p)
    /\ Commit(addProperty(Cur, o, p, owner),
              Call(IF owner THEN "addOwned" ELSE "add", o, p, 0))

\* Property* addProperty(std::unique_ptr<Property> property)
AddPropertyUnique(o, p) ==
    /\ CanGiveUnique(o, p)
    /\ Commit(addPropertyUnique(Cur, o, p), Call("addUnique", o, p, 0))

\* void insertProperty(size_t index, Property* property, bool owner)
InsertProperty(o, index, p, owner) ==
    /\ IF owner THEN CanHandOver(o, p) ELSE CanReference(o, p)
    /\ Commit(insertProperty(Cur, o, index, p, owner),
              Call(IF owner THEN "insertOwned" ELSE "insert", o, p, index))

\* Property* insertProperty(size_t index, std::unique_ptr<Property> property)
InsertPropertyUnique(o, index, p) ==
    /\ CanGiveUnique(o, p)
    /\ Commit(insertPropertyUnique(Cur, o, index, p), Call("insertUnique", o, p, index))

\* Property* removeProperty(std::string_view identifier)
RemoveById(o, id) ==
    /\ IsOwner(o)
    /\ Commit(removePropertyById(Cur, o, id),
              Call("removeById", o, NULL, IdIndex(id)))

\* Property* removeProperty(Property* property) and removeProperty(Property&)
RemoveByPtr(o, p) ==
    /\ IsOwner(o) /\ pstate[p] = "live"
    /\ Commit(removePropertyByPtr(Cur, o, p), Call("removeByPtr", o, p, 0))

\* Property* removeProperty(size_t index)
RemoveByIndex(o, index) ==
    /\ IsOwner(o)
    /\ Commit(removePropertyByIndex(Cur, o, index), Call("removeByIndex", o, NULL, index))

\* Property* removeProperty(iterator it): begin() + index, up to end()
RemoveByIterator(o, index) ==
    /\ IsOwner(o) /\ index <= Len(properties_[o])
    /\ Commit(removePropertyImpl(Cur, o, index + 1),
              Call("removeByIterator", o,
                   IF index < Len(properties_[o]) THEN properties_[o][index + 1] ELSE NULL,
                   index))

\* bool move(Property* property, size_t newIndex); inserting past the end of the
\* vector is not defined, so callers pass newIndex < size() for a member
Move(o, p, newIndex) ==
    /\ IsOwner(o) /\ pstate[p] = "live"
    /\ InSeq(p, properties_[o]) => newIndex < Len(properties_[o])
    /\ Commit(move(Cur, o, p, newIndex), Call("move", o, p, newIndex))

\* void clear()
Clear(o) ==
    /\ IsOwner(o) /\ properties_[o] # <<>>
    /\ Commit(clear(Cur, o), Call("clear", o, NULL, 0))

\* owner.invalidate(level)
Invalidate(o, level) ==
    /\ IsOwner(o) /\ level \in InvalidationLevels
    /\ Commit(invalidate(Cur, o, level), Call("invalidate", o, NULL, level))

\* owner.setValid()
SetValid(o) ==
    /\ IsOwner(o)
    /\ Commit(setValid(Cur, o), Call("setValid", o, NULL, 0))

\* Property::setModified(): the property is marked as changed
SetModified(p) ==
    /\ pstate[p] = "live" /\ ~propertyModified_[p]
    /\ Commit([Cur EXCEPT !.propertyModified_[p] = TRUE], Call("setModified", owner_[p], p, 0))

\* owner.getPropertyByPath(path); the call keeps the path as its index argument
GetPropertyByPath(o, path) ==
    /\ IsOwner(o)
    /\ Commit([Cur EXCEPT !.ret = getPropertyByPath(Cur, o, path)],
              Call("getPropertyByPath", o, NULL, path))

\* a call on the network: the network after it and what it returned
CommitNet(n, call, ret) ==
    /\ network' = n
    /\ notes' = <<>>
    /\ last' = [op |-> call.op, owner |-> call.owner, arg |-> call.arg,
                index |-> call.index, ret |-> ret, thrown |-> "none"]
    /\ UNCHANGED <<propertyVars, clipboard, appVars>>

\* ProcessorNetwork::addConnection: between two processors of the network
AddConnection(c) ==
    /\ c \notin network.connections /\ c.outport[1] # c.inport[1]
    /\ {c.outport[1], c.inport[1]} \subseteq network.processors
    /\ Cardinality(network.connections) < MaxConnections
    /\ CommitNet([network EXCEPT !.connections = @ \cup {c}],
                 Call("connections", NULL, NULL, 0), NULL)

\* ProcessorNetwork::removeConnection
RemoveConnection(c) ==
    /\ c \in network.connections
    /\ CommitNet([network EXCEPT !.connections = @ \ {c}, !.inactive = @ \ {c}],
                 Call("connections", NULL, NULL, 0), NULL)

\* Processor::isConnectionActive(inport, outport) becomes false for a connection
\* of a processor that overrides it
Deactivate(c) ==
    /\ c \in network.connections \ network.inactive /\ c.inport[1] \in Switches
    /\ CommitNet([network EXCEPT !.inactive = @ \cup {c}],
                 Call("connections", NULL, NULL, 0), NULL)

\* util::topologicalSort(network) / util::topologicalSortFiltered(network)
TopologicalSort(filtered) ==
    /\ network.processors # {}
    /\ CommitNet(network,
                 Call(IF filtered THEN "topologicalSortFiltered" ELSE "topologicalSort",
                      NULL, NULL, 0),
                 IF filtered THEN topologicalSortFiltered(network)
                 ELSE topologicalSort(network))

\* the four neighbourhood functions called on one processor
Neighbours(p) ==
    /\ p \in network.processors
    /\ CommitNet(network, Call("neighbours", NULL, p, 0),
                 [directPredecessors |-> getDirectPredecessors(network, p),
                  directSuccessors |-> getDirectSuccessors(network, p),
                  predecessors |-> getPredecessors(network, p),
                  successors |-> getSuccessors(network, p)])

\* util::serializeSelected(network, os, refPath)
SerializeSelected ==
    /\ network.processors # {}
    /\ clipboard' = <<serialize(network)>>
    /\ network' = network /\ notes' = <<>>
    /\ last' = [op |-> "serializeSelected", owner |-> NULL, arg |-> NULL,
                index |-> 0, ret |-> NULL, thrown |-> "none"]
    /\ UNCHANGED <<propertyVars, appVars>>

\* network->removeProcessor(p)
RemoveProcessor(p) ==
    /\ p \in network.processors
    /\ CommitNet(removeProcessor(network, p), Call("removeProcessor", NULL, p, 0), NULL)

\* util::appendPartialProcessorNetwork(network, is, refPath, app, callback)
\* reading what serializeSelected wrote; it returns getAddedProcessors()
AppendPartialProcessorNetwork(callback) ==
    /\ clipboard # <<>> /\ network.processors # {}
    /\ Cardinality(clipboard[1].processors) <= Cardinality(Procs \ network.processors)
    /\ LET st == deserialize(network, clipboard[1], callback)
       IN /\ network' = st.n
          /\ notes' = <<Step("lock", NULL)>> \o st.log \o <<Step("unlock", NULL)>>
          /\ last' = [op |-> "appendPartialProcessorNetwork", owner |-> NULL,
                      arg |-> IF callback THEN 1 ELSE 0, index |-> 0,
                      ret |-> st.added, thrown |-> "none"]
    /\ UNCHANGED <<propertyVars, clipboard, appVars>>

\* util::replaceProcessor(network, newProcessor, oldProcessor) with a
\* newProcessor that is not in the network and whose identifier is id, called
\* by code that holds a NetworkLock of its own (held) or holds none
ReplaceProcessor(newp, oldp, id, held) ==
    /\ oldp \in network.processors /\ newp \notin network.processors
    /\ constructed[PropertyOwnerOf(oldp)] /\ constructed[PropertyOwnerOf(newp)]
    /\ LET r == replaceProcessor(Cur, network, newp, oldp, id)
       IN /\ value' = r.s.value
          /\ network' = r.n
          /\ notes' = IF held THEN <<Step("lock", NULL)>> \o r.log \o <<Step("unlock", NULL)>>
                      ELSE r.log
          /\ last' = [op |-> "replaceProcessor", owner |-> NULL, arg |-> oldp,
                      index |-> newp, ret |-> r.ret, thrown |-> "none"]
    /\ UNCHANGED <<constructed, properties_, eventProperties_, compositeProperties_,
                   ownedProperties_, observers, pstate, ident, kind, owner_, serMode,
                   invalidationLevel_, propertyModified_, clipboard, appVars>>

\* network->addProcessor(p) called by the application
AddProcessor(p, id) ==
    /\ p \notin network.processors
    /\ CommitNet([network EXCEPT !.processors = @ \cup {p},
                                 !.identifier[p] = uniqueIdentifier(network, id)],
                 Call("addProcessor", NULL, p, 0), NULL)

\* util::addProcessorOnConnection(network, processor, connection): with a
\* std::shared_ptr to a processor that is not in the network, or with a
\* reference to an unconnected processor of the network
AddProcessorOnConnection(p, c, shared) ==
    /\ c \in network.connections /\ shared = (p \notin network.processors)
    /\ \A x \in network.connections : p \notin {x.outport[1], x.inport[1]}
    /\ LET r == addProcessorOnConnection(network, p, c, shared, p)
       IN /\ network' = r.n
          /\ notes' = r.log
          /\ last' = [op |-> "addProcessorOnConnection", owner |-> NULL, arg |-> p,
                      index |-> c, ret |-> r.ret, thrown |-> "none"]
    /\ UNCHANGED <<propertyVars, clipboard, appVars>>

\* number of objects the copy constructor allocates
ClonesNeeded(rhs) ==
    LET own == ownedProperties_[rhs]
        sub(i) == IF kind[own[i]] = "composite" THEN Len(ownedProperties_[own[i]]) ELSE 0
        RECURSIVE sum(_)
        sum(i) == IF i > Len(own) THEN 0 ELSE 1 + sub(i) + sum(i + 1)
    IN sum(1)

\* PropertyOwner dst{rhs}
CopyConstruct(rhs, dst) ==
    /\ rhs \in Owners /\ dst \in Owners /\ constructed[rhs] /\ ~constructed[dst]
    /\ ClonesNeeded(rhs) <= Cardinality(FreeSlots(Cur))
    /\ Commit(copyConstruct([Cur EXCEPT !.constructed[dst] = TRUE], rhs, dst),
              Call("copyConstruct", dst, rhs, 0))

\* PropertyOwner dst{std::move(rhs)}
MoveConstruct(rhs, dst) ==
    /\ rhs \in Owners /\ dst \in Owners /\ constructed[rhs] /\ ~constructed[dst]
    /\ Commit(moveConstruct([Cur EXCEPT !.constructed[dst] = TRUE], rhs, dst),
              Call("moveConstruct", dst, rhs, 0))

\* this = std::move(that)
MoveAssign(this, that) ==
    /\ this \in Owners /\ that \in Owners /\ constructed[this] /\ constructed[that]
    /\ Commit(moveAssign(Cur, this, that), Call("moveAssign", this, that, 0))

\* index arguments: every position of the list, end() and one past it
Indices(o) == 0..(Len(properties_[o]) + 1)

Inserts ==
    \E o \in OwnerIds, p \in Props :
        \/ \E owner \in BOOLEAN : AddProperty(o, p, owner)
        \/ AddPropertyUnique(o, p)
        \/ \E i \in Indices(o), owner \in BOOLEAN : InsertProperty(o, i, p, owner)
        \/ \E i \in Indices(o) : InsertPropertyUnique(o, i, p)

Removes ==
    \E o \in OwnerIds :
        \/ \E id \in Ids : RemoveById(o, id)
        \/ \E p \in Props : RemoveByPtr(o, p)
        \/ \E i \in Indices(o) : RemoveByIndex(o, i)
        \/ \E i \in Indices(o) : RemoveByIterator(o, i)
        \/ Clear(o)

Moves == \E o \in OwnerIds, p \in Props : \E i \in Indices(o) : Move(o, p, i)

\* One PropertyOwner (and the CompositeProperty it may hold) under every method
\* that adds, removes or reorders properties
Next ==
    \/ Inserts
    \/ Removes
    \/ Moves

Spec == Init /\ [][Next]_vars

\* Two PropertyOwners that are handed the same application properties
InitShared == InitWith(Owners, {1, 2, 4}) /\ network = NoNetwork /\ clipboard = <<>> /\ InitApp

NextShared ==
    \E o \in Owners, p \in Props :
        \/ \E owner \in BOOLEAN : AddProperty(o, p, owner)
        \/ \E i \in Indices(o) : InsertProperty(o, i, p, FALSE)
        \/ RemoveByPtr(o, p)
        \/ \E i \in Indices(o) : Move(o, p, i)

SpecShared == InitShared /\ [][NextShared]_vars

\* A PropertyOwner with observers and properties that is copy-constructed
InitCopy == InitWith({101}, {2, 3, 4}) /\ network = NoNetwork /\ clipboard = <<>> /\ InitApp

NextCopy ==
    \/ \E o \in OwnerIds, p \in Props, owner \in BOOLEAN : AddProperty(o, p, owner)
    \/ \E o \in OwnerIds, p \in Props : RemoveByPtr(o, p)
    \/ \E p \in Props, v \in Values : ident[p] = "y" /\ SetValue(p, v)
    \/ \E o \in Owners, ob \in Observers : AddObserver(o, ob)
    \/ \E rhs \in Owners, dst \in Owners : CopyConstruct(rhs, dst)

SpecCopy == InitCopy /\ [][NextCopy]_vars

\* PropertyOwners that are move-constructed and move-assigned
InitMove == InitWith({101}, {1, 2, 3}) /\ network = NoNetwork /\ clipboard = <<>> /\ InitApp

NextMove ==
    \/ \E o \in Owners, p \in Props, owner \in BOOLEAN : AddProperty(o, p, owner)
    \/ \E o \in Owners, p \in Props : \E i \in Indices(o) : InsertProperty(o, i, p, TRUE)
    \/ \E o \in Owners, ob \in Observers : AddObserver(o, ob)
    \/ \E o \in Owners : DefaultConstruct(o) \/ Destruct(o)
    \/ \E rhs \in Owners, dst \in Owners : MoveConstruct(rhs, dst)
    \/ \E this \in Owners, that \in Owners : MoveAssign(this, that)

SpecMove == InitMove /\ [][NextMove]_vars

\* Two PropertyOwners under every method that changes the property list,
\* move construction and move assignment included
NextIndices ==
    \/ \E o \in Owners, p \in Props, owner \in BOOLEAN : AddProperty(o, p, owner)
    \/ \E o \in Owners, p \in Props : \E i \in Indices(o) : InsertProperty(o, i, p, TRUE)
    \/ \E o \in Owners, p \in Props : RemoveByPtr(o, p)
    \/ \E o \in Owners, p \in Props : \E i \in Indices(o) : Move(o, p, i)
    \/ \E o \in Owners : Clear(o)
    \/ \E o \in Owners : DefaultConstruct(o) \/ Destruct(o)
    \/ \E rhs \in Owners, dst \in Owners : MoveConstruct(rhs, dst)
    \/ \E this \in Owners, that \in Owners : MoveAssign(this, that)

SpecIndices == InitMove /\ [][NextIndices]_vars

\* Observed PropertyOwners whose properties are removed one by one, all at once
\* and by the destruction of the owner
NextRemove ==
    \/ \E o \in OwnerIds, p \in Props, owner \in BOOLEAN : AddProperty(o, p, owner)
    \/ \E o \in Owners, ob \in Observers : AddObserver(o, ob)
    \/ \E o \in OwnerIds, p \in Props : RemoveByPtr(o, p)
    \/ \E o \in OwnerIds : \E i \in Indices(o) : RemoveByIndex(o, i)
    \/ \E o \in OwnerIds : Clear(o)
    \/ \E o \in Owners : DefaultConstruct(o) \/ Destruct(o)

SpecRemove == InitMove /\ [][NextRemove]_vars

\* A PropertyOwner with a CompositeProperty that are invalidated and set valid
InitInvalidate == InitWith({101}, {1, 3, 4}) /\ network = NoNetwork /\ clipboard = <<>> /\ InitApp

NextInvalidate ==
    \/ \E o \in OwnerIds, p \in Props, owner \in BOOLEAN : AddProperty(o, p, owner)
    \/ \E o \in OwnerIds, p \in Props : RemoveByPtr(o, p)
    \/ \E o \in OwnerIds, p \in Props : \E i \in Indices(o) : Move(o, p, i)
    \/ \E o \in OwnerIds, level \in InvalidationLevels : Invalidate(o, level)
    \/ \E o \in OwnerIds : SetValid(o)
    \/ \E p \in Props : SetModified(p)

SpecInvalidate == InitInvalidate /\ [][NextInvalidate]_vars

\* A property tree three levels deep: owner 101 owns composite 1 and property 2,
\* composite 1 owns composite 3 and property 4, composite 3 owns 5 and 6; the
\* odd properties are called x and the even ones y.  It is built with addProperty.
InitPath ==
    LET tree == 1..6
        blank == [constructed |-> [o \in Owners |-> o = 101],
                  properties_ |-> [o \in OwnerIds |-> <<>>],
                  eventProperties_ |-> [o \in OwnerIds |-> <<>>],
                  compositeProperties_ |-> [o \in OwnerIds |-> <<>>],
                  ownedProperties_ |-> [o \in OwnerIds |-> <<>>],
                  observers |-> [o \in Owners |-> {}],
                  pstate |-> [p \in Props |-> IF p \in tree THEN "live" ELSE "free"],
                  ident |-> [p \in Props |-> IF p \notin tree THEN NoId
                                             ELSE IF p % 2 = 1 THEN "x" ELSE "y"],
                  kind |-> [p \in Props |-> IF p \in {1, 3} THEN "composite" ELSE "plain"],
                  owner_ |-> [p \in Props |-> NULL],
                  serMode |-> [p \in Props |-> "Default"],
                  value |-> [p \in Props |-> DefaultValue],
                  invalidationLevel_ |-> [o \in OwnerIds |-> Valid],
                  propertyModified_ |-> [p \in Props |-> FALSE],
                  notes |-> <<>>, thrown |-> "none", ret |-> NULL]
        add(s, o, p) == addProperty(s, o, p, TRUE)
        s == add(add(add(add(add(add(blank, 3, 5), 3, 6), 1, 3), 1, 4), 101, 1), 101, 2)
    IN /\ constructed = s.constructed
       /\ properties_ = s.properties_
       /\ eventProperties_ = s.eventProperties_
       /\ compositeProperties_ = s.compositeProperties_
       /\ ownedProperties_ = s.ownedProperties_
       /\ observers = s.observers
       /\ pstate = s.pstate
       /\ ident = s.ident
       /\ kind = s.kind
       /\ owner_ = s.owner_
       /\ serMode = s.serMode
       /\ value = s.value
       /\ invalidationLevel_ = s.invalidationLevel_
       /\ propertyModified_ = s.propertyModified_
       /\ network = NoNetwork /\ clipboard = <<>> /\ InitApp
       /\ notes = <<>>
       /\ last = [op |-> "init", owner |-> NULL, arg |-> NULL, index |-> 0,
                  ret |-> NULL, thrown |-> "none"]

NextPath ==
    \/ \E o \in Owners, path \in Paths : GetPropertyByPath(o, path)
    \/ \E o \in OwnerIds, p \in Props : RemoveByPtr(o, p)

SpecPath == InitPath /\ [][NextPath]_vars

\* A network of four processors with one, two or three sinks that is connected
\* and sorted
InitNet ==
    /\ InitWith({}, {}) /\ clipboard = <<>> /\ InitApp
    /\ network \in {[NoNetwork EXCEPT !.processors = 1..4, !.sinks = s] :
                        s \in {{4}, {3, 4}, {1, 4}, {2, 3, 4}}}

NextNet ==
    \/ \E c \in PortConnections : AddConnection(c) \/ RemoveConnection(c) \/ Deactivate(c)
    \/ \E filtered \in BOOLEAN : TopologicalSort(filtered)
    \/ \E p \in network.processors : Neighbours(p)

SpecNet == InitNet /\ [][NextNet]_vars

\* A network of three processors, some of them selected, with some of three
\* connections and of three links, that is copied, edited and pasted into
InitPaste ==
    /\ InitWith({}, {}) /\ clipboard = <<>> /\ InitApp
    /\ \E cs \in SUBSET {[outport |-> <<1, 1>>, inport |-> <<2, 1>>],
                          [outport |-> <<3, 1>>, inport |-> <<1, 1>>],
                          [outport |-> <<2, 1>>, inport |-> <<3, 1>>]},
          ls \in SUBSET {[src |-> <<1, 1>>, dst |-> <<2, 1>>],
                          [src |-> <<1, 1>>, dst |-> <<3, 1>>],
                          [src |-> <<3, 1>>, dst |-> <<2, 1>>]},
          sel \in SUBSET (1..3) :
          network = [NoNetwork EXCEPT !.processors = 1..3,
                                      !.identifier = [p \in Procs |->
                                                         IF p \in 1..3 THEN p ELSE NULL],
                                      !.connections = cs, !.links = ls,
                                      !.selected = sel]

\* one copy, then processors are removed, then one paste
NextPaste ==
    \/ clipboard = <<>> /\ SerializeSelected
    \/ \E p \in Procs :
           clipboard # <<>> /\ network.processors \subseteq 1..3 /\ RemoveProcessor(p)
    \/ \E callback \in BOOLEAN :
           network.processors \subseteq 1..3 /\ AppendPartialProcessorNetwork(callback)

SpecPaste == InitPaste /\ [][NextPaste]_vars

\* ------------------------------------------------------ sanity of the model
\* Processor 1 (owner 101: x, y { x }) is connected to processors 3 and 4 and
\* linked with them and with itself; processor 2 (owner 102: x, y { x }), whose
\* property x is of the class of the old x or of another one and whose ports
\* vary, is not in the network and replaces it.
InitReplace ==
    LET blank == [constructed |-> [o \in Owners |-> TRUE],
                  properties_ |-> [o \in OwnerIds |-> <<>>],
                  eventProperties_ |-> [o \in OwnerIds |-> <<>>],
                  compositeProperties_ |-> [o \in OwnerIds |-> <<>>],
                  ownedProperties_ |-> [o \in OwnerIds |-> <<>>],
                  observers |-> [o \in Owners |-> {}],
                  pstate |-> [p \in Props |-> IF p \in 1..6 THEN "live" ELSE "free"],
                  ident |-> [p \in Props |-> IF p \notin 1..6 THEN NoId
                                             ELSE IF p \in {2, 5} THEN "y" ELSE "x"],
                  kind |-> [p \in Props |-> IF p \in {2, 5} THEN "composite" ELSE "plain"],
                  owner_ |-> [p \in Props |-> NULL],
                  serMode |-> [p \in Props |-> "Default"],
                  value |-> [p \in Props |-> IF p \in 1..3 THEN "v1" ELSE DefaultValue],
                  invalidationLevel_ |-> [o \in OwnerIds |-> Valid],
                  propertyModified_ |-> [p \in Props |-> FALSE],
                  notes |-> <<>>, thrown |-> "none", ret |-> NULL]
        add(s, o, p) == addProperty(s, o, p, TRUE)
    IN /\ \E class \in {"plain", "event"} :
              LET s == add(add(add(add(add(add([blank EXCEPT !.kind[4] = class],
                                               2, 3), 101, 1), 101, 2), 5, 6), 102, 4), 102, 5)
              IN /\ constructed = s.constructed
                 /\ properties_ = s.properties_
                 /\ eventProperties_ = s.eventProperties_
                 /\ compositeProperties_ = s.compositeProperties_
                 /\ ownedProperties_ = s.ownedProperties_
                 /\ observers = s.observers
                 /\ pstate = s.pstate
                 /\ ident = s.ident
                 /\ kind = s.kind
                 /\ owner_ = s.owner_
                 /\ serMode = s.serMode
                 /\ value = s.value
                 /\ invalidationLevel_ = s.invalidationLevel_
                 /\ propertyModified_ = s.propertyModified_
       /\ \E cs \in SUBSET {[outport |-> <<3, 1>>, inport |-> <<1, 1>>],
                             [outport |-> <<3, 2>>, inport |-> <<1, 2>>],
                             [outport |-> <<1, 1>>, inport |-> <<4, 1>>]},
             ls \in SUBSET {[src |-> <<3, 1>>, dst |-> <<1, 1>>],
                             [src |-> <<1, 3>>, dst |-> <<4, 1>>],
                             [src |-> <<1, 1>>, dst |-> <<1, 3>>],
                             [src |-> <<4, 1>>, dst |-> <<1, 2>>]},
             in \in {<<1>>, <<2>>, <<1, 2>>, <<2, 1>>},
             out \in {<<1>>, <<2>>} :
             network = [processors |-> {1, 3, 4}, sinks |-> {4}, connections |-> cs,
                        inactive |-> {}, selected |-> {}, links |-> ls,
                        identifier |-> [p \in Procs |-> IF p \in {1, 3, 4} THEN p ELSE NULL],
                        inports |-> [p \in Procs |-> CASE p \in {1, 4} -> <<1, 2>>
                                                       [] p = 2 -> in
                                                       [] OTHER -> <<>>],
                        outports |-> [p \in Procs |-> CASE p = 3 -> <<1, 2>>
                                                        [] p = 1 -> <<1>>
                                                        [] p = 2 -> out
                                                        [] OTHER -> <<>>]]
       /\ clipboard = <<>> /\ InitApp
       /\ notes = <<>>
       /\ last = [op |-> "init", owner |-> NULL, arg |-> NULL, index |-> 0,
                  ret |-> NULL, thrown |-> "none"]

NextReplace ==
    \/ \E id \in {1, 2}, held \in BOOLEAN : ReplaceProcessor(2, 1, id, held)
    \/ \E o \in {102, 5}, p \in 4..6 : 1 \in network.processors /\ RemoveByPtr(o, p)

SpecReplace == InitReplace /\ [][NextReplace]_vars

\* The network of InitReplace, whose connections are split by processor 2,
\* which is given as it is or is added to the network first
NextSplit ==
    \/ AddProcessor(2, 2)
    \/ \E c \in network.connections, shared \in BOOLEAN :
           last.op # "addProcessorOnConnection" /\ AddProcessorOnConnection(2, c, shared)

SpecSplit == InitReplace /\ [][NextSplit]_vars

\* void ModuleManager::registerModules(std::vector<ModuleContainer>): the batch
\* is made of the module libraries named, in the order given
RegisterModules(batch) ==
    \E r \in {registerModules(moduleManager,
                              [i \in DOMAIN batch |-> moduleManager.libraries[batch[i]]])} :
       /\ Len(moduleManager.inviwoModules_) < MaxModules
       /\ moduleManager' = r.mm
       /\ notes' = r.log
       /\ last' = [op |-> "registerModules", owner |-> NULL, arg |-> batch, index |-> 0,
                   ret |-> NULL, thrown |-> r.thrown]
       /\ UNCHANGED <<propertyVars, network, clipboard, callbacks, tf>>

\* void ModuleManager::reloadModules()
ReloadModules(save, load, failing) ==
    \E r \in {reloadModules(moduleManager, network, save, load, failing)} :
       /\ moduleManager' = r.mm
       /\ network' = r.n
       /\ notes' = r.log
       /\ last' = [op |-> "reloadModules", owner |-> NULL, arg |-> <<save, load>>,
                   index |-> 0, ret |-> NULL, thrown |-> r.thrown]
       /\ UNCHANGED <<propertyVars, clipboard, callbacks, tf>>

\* The module libraries an application finds: three modules with one of the
\* dependency graphs, of which at most one has a problem of its own (built for
\* another core version, createModule throws, or another version than the
\* rest), and the first of which may be protected.  The setting that disables
\* runtime module reloading is taken with one of them.
DependencyGraphs ==
    {<<{}, {}, {}>>, <<{}, {1}, {2}>>, <<{}, {}, {1, 2}>>, <<{3}, {1}, {}>>,
     <<{2}, {1}, {}>>, <<{}, {1, 3}, {2}>>}

Problems == {"none", "core", "fails", "version"}

Library(g, bad, problem, protected, id) ==
    [identifier |-> id,
     dependencies |-> {[name |-> d, version |-> 1] : d \in g[id]},
     version |-> IF id = bad /\ problem = "version" THEN 2 ELSE 1,
     coreVersionEqual |-> ~(id = bad /\ problem = "core"),
     fails |-> id = bad /\ problem = "fails",
     protectedModule |-> id \in protected, protectedLibrary |-> id \in protected,
     module |-> FALSE, loaded |-> TRUE]

Libraries ==
    {[id \in ModuleIds |-> Library(g, bad, problem, protected, id)] :
         g \in DependencyGraphs, bad \in ModuleIds, problem \in Problems,
         protected \in {{}, {1}}}

\* the batches: sequences of different modules
Batches ==
    {b \in UNION {[1..k -> ModuleIds] : k \in 1..3} :
         \A i, j \in DOMAIN b : i # j => b[i] # b[j]}

InitModules ==
    /\ InitWith({}, {}) /\ clipboard = <<>> /\ callbacks = <<>> /\ tf = <<>>
    /\ \E l \in Libraries, enabled \in BOOLEAN :
           /\ ~enabled => \A id \in ModuleIds : l[id] = Library(<<{}, {1}, {2}>>, 1, "none", {}, id)
           /\ moduleManager = [inviwoModules_ |-> <<>>, runtimeModuleReloading_ |-> enabled,
                               libraries |-> l]
    /\ network = [NoNetwork EXCEPT !.processors = {1, 2},
                                   !.connections = {[outport |-> <<1, 1>>,
                                                     inport |-> <<2, 1>>]}]

Outcomes == {"ok", "SerializationException", "Exception"}

NextModules ==
    \/ \E batch \in Batches : RegisterModules(batch)
    \/ \E save \in Outcomes \ {"ok"} : ReloadModules(save, "ok", {})
    \/ \E load \in Outcomes : ReloadModules("ok", load, {})
    \/ \E failing \in {{1}, {2}} : ReloadModules("ok", "ok", failing)

SpecModules == InitModules /\ [][NextModules]_vars

\* the state of the CallBackList objects after a call becomes the state
CommitList(c, call, ret, log) ==
    /\ callbacks' = c
    /\ notes' = log
    /\ last' = [op |-> call.op, owner |-> call.owner, arg |-> call.arg,
                index |-> call.index, ret |-> ret, thrown |-> "none"]
    /\ UNCHANGED <<propertyVars, network, clipboard, moduleManager, tf>>

IsList(l) == callbacks.lists[l].constructed

AddLambdaCallback(l) ==
    /\ IsList(l) /\ callbacks.next <= MaxCallbacks
    /\ CommitList(addLambdaCallback(callbacks, l), Call("addLambdaCallback", l, NULL, 0),
                  callbacks.next, <<>>)

RemoveCallback(l, cb) ==
    /\ IsList(l)
    /\ CommitList(removeCallback(callbacks, l, cb).c, Call("remove", l, cb, 0),
                  removeCallback(callbacks, l, cb).ret, <<>>)

ClearCallbacks(l) ==
    /\ IsList(l)
    /\ CommitList(clearCallbacks(callbacks, l), Call("clear", l, NULL, 0), NULL, <<>>)

\* void startBlockingCallbacks() { ++callbacksBlocked_; }
StartBlockingCallbacks(l) ==
    /\ IsList(l) /\ callbacks.lists[l].callbacksBlocked_ < MaxBlocked
    /\ CommitList([callbacks EXCEPT !.lists[l].callbacksBlocked_ = @ + 1],
                  Call("startBlockingCallbacks", l, NULL, 0), NULL, <<>>)

\* void stopBlockingCallbacks() { --callbacksBlocked_; }
StopBlockingCallbacks(l) ==
    /\ IsList(l) /\ callbacks.lists[l].callbacksBlocked_ >= 0
    /\ CommitList([callbacks EXCEPT !.lists[l].callbacksBlocked_ = @ - 1],
                  Call("stopBlockingCallbacks", l, NULL, 0), NULL, <<>>)

InvokeAll(l) ==
    /\ IsList(l)
    /\ CommitList(callbacks, Call("invokeAll", l, NULL, 0), NULL,
                  [i \in DOMAIN invokeAll(callbacks, l) |->
                       Step("callback", invokeAll(callbacks, l)[i])])

CopyConstructList(dst, rhs) ==
    /\ ~IsList(dst) /\ IsList(rhs)
    /\ CommitList(copyConstructList(callbacks, dst, rhs),
                  Call("copyConstruct", dst, rhs, 0), NULL, <<>>)

MoveConstructList(dst, rhs) ==
    /\ ~IsList(dst) /\ IsList(rhs)
    /\ CommitList(moveConstructList(callbacks, dst, rhs),
                  Call("moveConstruct", dst, rhs, 0), NULL, <<>>)

\* this = that, `category` saying what kind of expression `that` is
AssignList(this, that, category) ==
    /\ IsList(this) /\ IsList(that)
    /\ category = "rvalue" => this # that
    /\ CommitList(assign(callbacks, this, that, category),
                  Call(IF category = "rvalue" THEN "moveAssign" ELSE "copyAssign",
                       this, that, 0), category, <<>>)

\* ~CallBackList() = default
DestroyList(l) ==
    /\ IsList(l)
    /\ CommitList([callbacks EXCEPT !.lists[l] = NoList], Call("destroy", l, NULL, 0),
                  NULL, <<>>)

\* one CallBackList, a second one to be made from it
InitCallbacks ==
    /\ InitWith({}, {}) /\ network = NoNetwork /\ clipboard = <<>> /\ tf = <<>>
    /\ moduleManager = [inviwoModules_ |-> <<>>, runtimeModuleReloading_ |-> TRUE,
                        libraries |-> <<>>]
    /\ callbacks = [lists |-> [l \in ListIds |->
                                   IF l = 1 THEN [NoList EXCEPT !.constructed = TRUE]
                                   ELSE NoList],
                    next |-> 1]

NextCallbacks ==
    \/ \E l \in ListIds :
           \/ AddLambdaCallback(l) \/ ClearCallbacks(l) \/ InvokeAll(l) \/ DestroyList(l)
           \/ \E cb \in 1..MaxCallbacks : RemoveCallback(l, cb)
    \/ \E dst, rhs \in ListIds :
           \/ CopyConstructList(dst, rhs) \/ MoveConstructList(dst, rhs)
           \/ \E category \in {"const", "lvalue", "rvalue"} : AssignList(dst, rhs, category)

SpecCallbacks == InitCallbacks /\ [][NextCallbacks]_vars

\* one CallBackList whose callbacks are blocked and unblocked, and a second one
\* that is made from it and assigned from it
NextBlocking ==
    \/ AddLambdaCallback(1) \/ ClearCallbacks(1) \/ InvokeAll(1)
    \/ StartBlockingCallbacks(1) \/ StopBlockingCallbacks(1)
    \/ \E cb \in 1..MaxCallbacks : RemoveCallback(1, cb)
    \/ CopyConstructList(2, 1) \/ DestroyList(2)
    \/ \E category \in {"const", "lvalue"} : AssignList(2, 1, category)

SpecBlocking == InitCallbacks /\ [][NextBlocking]_vars

\* owner.serialize(s): the document is kept in `clipboard`
SerializeOwner(o) ==
    /\ IsOwner(o)
    /\ clipboard' = <<serializeOwner(Cur, o)>>
    /\ notes' = <<>>
    /\ last' = [op |-> "serialize", owner |-> o, arg |-> NULL, index |-> 0,
                ret |-> NULL, thrown |-> "none"]
    /\ UNCHANGED <<propertyVars, network, appVars>>

\* owner.deserialize(d) with the document that was written
DeserializeOwner(o) ==
    /\ IsOwner(o) /\ clipboard # <<>>
    /\ Commit(deserializeOwner(Cur, o, clipboard[1]), Call("deserialize", o, NULL, 0))

\* Two owners constructed the same way: the constructor adds the members x and
\* y (properties 1 and 2 of owner 101, 3 and 4 of owner 102) and, in one
\* variant, an owned property z (property 5 and property 6); in the other
\* variant property 5 is a property z made at run time that owner 101 can be
\* given.
InitSerialize ==
    LET blank == [constructed |-> [o \in Owners |-> TRUE],
                  properties_ |-> [o \in OwnerIds |-> <<>>],
                  eventProperties_ |-> [o \in OwnerIds |-> <<>>],
                  compositeProperties_ |-> [o \in OwnerIds |-> <<>>],
                  ownedProperties_ |-> [o \in OwnerIds |-> <<>>],
                  observers |-> [o \in Owners |-> {}],
                  pstate |-> [p \in Props |-> IF p \in 1..5 THEN "live" ELSE "free"],
                  ident |-> [p \in Props |-> CASE p \in {1, 3} -> "x" [] p \in {2, 4} -> "y"
                                               [] p = 5 -> "z" [] OTHER -> NoId],
                  kind |-> [p \in Props |-> "plain"],
                  owner_ |-> [p \in Props |-> NULL],
                  serMode |-> [p \in Props |-> "Default"],
                  value |-> [p \in Props |-> DefaultValue],
                  invalidationLevel_ |-> [o \in OwnerIds |-> Valid],
                  propertyModified_ |-> [p \in Props |-> FALSE],
                  notes |-> <<>>, thrown |-> "none", ret |-> NULL]
        members == addProperty(addProperty(addProperty(addProperty(blank, 101, 1, FALSE),
                                                       101, 2, FALSE), 102, 3, FALSE),
                               102, 4, FALSE)
        owning == addProperty(addProperty([members EXCEPT !.pstate[6] = "live",
                                                          !.ident[6] = "z"],
                                          101, 5, TRUE), 102, 6, TRUE)
    IN /\ \E s \in {members, owning} :
              /\ constructed = s.constructed
              /\ properties_ = s.properties_
              /\ eventProperties_ = s.eventProperties_
              /\ compositeProperties_ = s.compositeProperties_
              /\ ownedProperties_ = s.ownedProperties_
              /\ observers = s.observers
              /\ pstate = s.pstate
              /\ ident = s.ident
              /\ kind = s.kind
              /\ owner_ = s.owner_
              /\ serMode = s.serMode
              /\ value = s.value
              /\ invalidationLevel_ = s.invalidationLevel_
              /\ propertyModified_ = s.propertyModified_
       /\ notes = <<>>
       /\ last = [op |-> "init", owner |-> NULL, arg |-> NULL, index |-> 0,
                  ret |-> NULL, thrown |-> "none"]
       /\ network = NoNetwork /\ clipboard = <<>> /\ InitApp

\* owner 101 is edited, then serialized, and the document is read by owner 102
NextSerialize ==
    \/ /\ clipboard = <<>>
       /\ \/ \E p \in {1, 2, 5}, v \in Values : owner_[p] = 101 /\ SetValue(p, v)
          \/ \E index \in 0..2 : InsertProperty(101, index, 5, TRUE)
          \/ \E p \in {1, 2, 5}, newIndex \in 0..2 : InSeq(p, properties_[101]) /\ Move(101, p, newIndex)
          \/ RemoveById(101, "z")
          \/ SerializeOwner(101)
    \/ last.op = "serialize" /\ DeserializeOwner(102)

SpecSerialize == InitSerialize /\ [][NextSerialize]_vars

\* ------------------------------------------------------------ TFPrimitiveSet
\* A TFPrimitiveSet owns its primitives in values_ (in the order they were added)
\* and keeps the pointers to them a second time in sorted_.  A primitive is its
\* TFPrimitiveData, a position and the alpha of its colour; a pointer to it is
\* its place in values_, which goes down by one when a primitive before it is
\* erased.
MaxPrimitives == 3
PrimIds == 1..MaxPrimitives
\* the position 1.0: the valid range of a Relative set is [0, PosOne]
PosOne == 1
Positions == (-1)..(PosOne + 1)
Alphas == {0, 1}
TFData == [pos : Positions, alpha : Alphas]
TFTypes == {"Relative", "Absolute"}

\* TFPrimitiveData::operator<=>: std::tie(pos, color.a) compared
Less(a, b) == a.pos < b.pos \/ (a.pos = b.pos /\ a.alpha < b.alpha)

\* std::upper_bound(sorted_.begin(), sorted_.end(), primitive, comparePtr{})
upperBound(t, d) ==
    LET after == {i \in DOMAIN t.sorted_ : Less(d, t.values_[t.sorted_[i]])}
    IN IF after = {} THEN Len(t.sorted_) + 1
       ELSE CHOOSE i \in after : \A j \in after : i <= j

\* std::stable_sort with comparePtr: each element goes behind the elements before
\* it that are not greater
RECURSIVE stableSort(_, _)
stableSort(q, data) ==
    IF q = <<>> THEN <<>>
    ELSE LET head == stableSort(SubSeq(q, 1, Len(q) - 1), data)
             x == q[Len(q)]
             after == {i \in DOMAIN head : Less(data[x], data[head[i]])}
             at == IF after = {} THEN Len(head) + 1
                   ELSE CHOOSE i \in after : \A j \in after : i <= j
         IN InsertAt(head, at, x)

\* sort() that sorts by position alone
sortByPosition(t) ==
    [t EXCEPT !.sorted_ =
         stableSort(@, [p \in DOMAIN t.values_ |->
                            [pos |-> t.values_[p].pos, alpha |-> 0]])]

\* void TFPrimitiveSet::sort()
sort(t) == [t EXCEPT !.sorted_ = stableSort(@, t.values_)]

\* void TFPrimitiveSet::onTFPrimitiveChange(const TFPrimitive& p)
onTFPrimitiveChange(t, p) == sort(t)

\* TFPrimitive::setData, setPosition, setAlpha and the assignments to a
\* TFPrimitive: the observers are notified when the data has changed
setData(t, p, d) ==
    IF t.values_[p] = d THEN t ELSE onTFPrimitiveChange([t EXCEPT !.values_[p] = d], p)

\* void TFPrimitiveSet::verifyPoint(double pos) const: TRUE when it does not throw
verifyPoint(t, pos) == ~(t.type_ = "Relative" /\ (pos < 0 \/ pos > PosOne))

Done(t) == [t |-> t, thrown |-> "none"]
Thrown(t) == [t |-> t, thrown |-> "RangeException"]

\* TFPrimitive& TFPrimitiveSet::add(std::unique_ptr<TFPrimitive> primitive)
add(t, d) ==
    IF ~verifyPoint(t, d.pos) THEN Thrown(t)
    ELSE Done([t EXCEPT !.sorted_ = InsertAt(@, upperBound(t, d), Len(t.values_) + 1),
                        !.values_ = Append(@, d)])

\* bool TFPrimitiveSet::remove(std::vector<std::unique_ptr<TFPrimitive>>::iterator it),
\* `pos` being the position of the iterator in values_, Len + 1 for end()
remove(t, pos) ==
    IF pos > Len(t.values_) THEN t
    ELSE LET left == Erase(t.sorted_, pos)
         IN [t EXCEPT !.values_ = RemoveAt(@, pos),
                      !.sorted_ = [i \in DOMAIN left |->
                                       IF left[i] > pos THEN left[i] - 1 ELSE left[i]]]

\* while (values_.size() > targetSize) remove(--values_.end());
RECURSIVE trim(_, _)
trim(t, targetSize) ==
    IF Len(t.values_) > targetSize THEN trim(remove(t, Len(t.values_)), targetSize)
    ELSE t

\* void TFPrimitiveSet::clear()
clearPrimitives(t) == trim(t, 0)

\* the two loops of set() that copy the points: into the primitives there are,
\* each point verified first, and then by add()
RECURSIVE setLoop(_, _, _)
setLoop(t, points, i) ==
    IF i > Len(points) THEN Done(t)
    ELSE IF i <= Len(t.values_)
         THEN IF ~verifyPoint(t, points[i].pos) THEN Thrown(t)
              ELSE setLoop(setData(t, i, points[i]), points, i + 1)
         ELSE LET r == add(t, points[i])
              IN IF r.thrown # "none" THEN r ELSE setLoop(r.t, points, i + 1)

\* void TFPrimitiveSet::set(std::span<const TFPrimitiveData> points)
set(t, points) ==
    LET r == setLoop(t, points, 1)
    IN IF r.thrown # "none" THEN r ELSE Done(trim(r.t, Len(points)))

\* void TFPrimitiveSet::setType(TFPrimitiveSetType type)
setType(t, type) == IF t.type_ # type THEN [t EXCEPT !.type_ = type] ELSE t

\* the two loops of operator= that copy the primitives of rhs
RECURSIVE assignLoop(_, _, _)
assignLoop(t, rhs, i) ==
    IF i > Len(rhs) THEN Done(t)
    ELSE IF i <= Len(t.values_)
         THEN assignLoop(setData(t, i, rhs[i]), rhs, i + 1)
         ELSE LET r == add(t, rhs[i])
              IN IF r.thrown # "none" THEN r ELSE assignLoop(r.t, rhs, i + 1)

\* TFPrimitiveSet& TFPrimitiveSet::operator=(const TFPrimitiveSet& rhs), and the
\* move assignment, which has the same body; rhs is another set, given by its
\* type and the data of its values_
assignSet(t, rhs) ==
    LET r == assignLoop([t EXCEPT !.type_ = rhs.type_], rhs.values_, 1)
    IN IF r.thrown # "none" THEN r ELSE Done(trim(r.t, Len(rhs.values_)))

RECURSIVE setPositions(_, _, _)
setPositions(t, order, pos) ==
    IF order = <<>> THEN t
    ELSE setPositions(setData(t, order[1], [t.values_[order[1]] EXCEPT !.pos = pos]),
                      Tail(order), pos)

Reverse(q) == [i \in DOMAIN q |-> q[Len(q) + 1 - i]]

\* void TFPrimitiveSet::setPosition(std::span<TFPrimitive*> primitives, double pos)
setPosition(t, primitives, pos) ==
    IF ~verifyPoint(t, pos) THEN Thrown(t)
    ELSE LET sortedSelection == SelectSeq(t.sorted_, LAMBDA p : p \in primitives)
             notLess == {i \in DOMAIN sortedSelection :
                             ~(t.values_[sortedSelection[i]].pos < pos)}
             partition == IF notLess = {} THEN Len(sortedSelection) + 1
                          ELSE CHOOSE i \in notLess : \A j \in notLess : i <= j
         IN Done(setPositions(t,
                    SubSeq(sortedSelection, partition, Len(sortedSelection))
                        \o Reverse(SubSeq(sortedSelection, 1, partition - 1)),
                    pos))

\* TFPrimitiveSet(const std::vector<TFPrimitiveData>& values, TFPrimitiveSetType type)
EmptySet(type) == [type_ |-> type, values_ |-> <<>>, sorted_ |-> <<>>]

Point(pos, alpha) == [pos |-> pos, alpha |-> alpha]

\* the point lists the callers pass to set(): in the range and outside it, in
\* order and out of order, with equal positions
PointLists ==
    {<<>>, <<Point(1, 0)>>, <<Point(PosOne + 1, 1)>>,
     <<Point(1, 1), Point(0, 0)>>, <<Point(0, 1), Point(-1, 0)>>,
     <<Point(1, 0), Point(1, 1), Point(0, 1)>>,
     <<Point(0, 0), Point(1, 0), Point(PosOne + 1, 0)>>}

\* the sets assigned from: what the constructor makes of a type and a point list
OtherSets ==
    {rhs \in [type_ : TFTypes, values_ : PointLists] :
         rhs.type_ = "Relative" =>
             \A i \in DOMAIN rhs.values_ :
                 rhs.values_[i].pos >= 0 /\ rhs.values_[i].pos <= PosOne}

\* the position is outside [0, 1]
OutOfRange(pos) == pos < 0 \/ pos > PosOne

\* what `last` keeps of the positions a call is given: 1 when one of them is
\* outside [0, 1]
Outside(positions) == IF \E pos \in positions : OutOfRange(pos) THEN 1 ELSE 0

CommitTF(r, call) ==
    /\ tf' = r.t
    /\ notes' = <<>>
    /\ last' = [op |-> call.op, owner |-> NULL, arg |-> call.arg, index |-> call.index,
                ret |-> NULL, thrown |-> r.thrown]
    /\ UNCHANGED <<propertyVars, network, clipboard, moduleManager, callbacks>>

TFAdd(d) ==
    /\ Len(tf.values_) < MaxPrimitives
    /\ \E r \in {add(tf, d)} : CommitTF(r, Call("add", NULL, NULL, Outside({d.pos})))

\* bool TFPrimitiveSet::remove(const TFPrimitive& primitive)
TFRemove(p) ==
    /\ p \in DOMAIN tf.values_
    /\ CommitTF(Done(remove(tf, p)), Call("remove", NULL, NULL, 0))

TFClear ==
    /\ tf.values_ # <<>>
    /\ CommitTF(Done(clearPrimitives(tf)), Call("clear", NULL, NULL, 0))

TFSet(points) ==
    \E r \in {set(tf, points)} : CommitTF(r, Call("set", NULL, NULL,
                                                 Outside({points[i].pos : i \in DOMAIN points})))

TFSetType(type) ==
    /\ tf.type_ # type
    /\ CommitTF(Done(setType(tf, type)), Call("setType", NULL, NULL, 0))

TFAssign(rhs) ==
    \E r \in {assignSet(tf, rhs)} : CommitTF(r, Call("assign", NULL, NULL, 0))

TFSetPosition(primitives, pos) ==
    /\ primitives # {} /\ primitives \subseteq DOMAIN tf.values_
    /\ \E r \in {setPosition(tf, primitives, pos)} :
           CommitTF(r, Call("setPosition", NULL, primitives, Outside({pos})))

\* set.get(i).setPosition(pos) and set.get(i).setAlpha(alpha): a caller changes a
\* primitive of the set
TFPrimitiveSetPosition(i, pos) ==
    /\ i \in DOMAIN tf.sorted_ /\ tf.values_[tf.sorted_[i]].pos # pos
    /\ CommitTF(Done(setData(tf, tf.sorted_[i], [tf.values_[tf.sorted_[i]] EXCEPT !.pos = pos])),
                Call("primitiveSetPosition", NULL, NULL, 0))

TFPrimitiveSetAlpha(i, alpha) ==
    /\ i \in DOMAIN tf.sorted_ /\ tf.values_[tf.sorted_[i]].alpha # alpha
    /\ CommitTF(Done(setData(tf, tf.sorted_[i], [tf.values_[tf.sorted_[i]] EXCEPT !.alpha = alpha])),
                Call("primitiveSetAlpha", NULL, NULL, 0))

InitTF ==
    /\ InitWith({}, {}) /\ network = NoNetwork /\ clipboard = <<>>
    /\ moduleManager = [inviwoModules_ |-> <<>>, runtimeModuleReloading_ |-> TRUE,
                        libraries |-> <<>>]
    /\ callbacks = <<>>
    /\ \E type \in TFTypes : tf = EmptySet(type)

NextTF ==
    \/ \E d \in TFData : TFAdd(d)
    \/ \E p \in PrimIds : TFRemove(p)
    \/ TFClear
    \/ \E points \in PointLists : TFSet(points)
    \/ \E type \in TFTypes : TFSetType(type)
    \/ \E rhs \in OtherSets : TFAssign(rhs)
    \/ \E primitives \in SUBSET PrimIds, pos \in Positions : TFSetPosition(primitives, pos)
    \/ \E i \in PrimIds, pos \in Positions : TFPrimitiveSetPosition(i, pos)
    \/ \E i \in PrimIds, alpha \in Alphas : TFPrimitiveSetAlpha(i, alpha)

SpecTF == InitTF /\ [][NextTF]_vars

TypeOK ==
    /\ constructed \in [Owners -> BOOLEAN]
    /\ \A o \in OwnerIds : Range(properties_[o]) \subseteq Props
    /\ pstate \in [Props -> {"free", "live"}]
    /\ owner_ \in [Props -> OwnerIds \cup {NULL}]
    /\ invalidationLevel_ \in [OwnerIds -> InvalidationLevels]
    /\ propertyModified_ \in [Props -> BOOLEAN]

\* the callers modelled never leave a pointer to a destroyed property behind
NoDangling ==
    \A o \in OwnerIds :
        \A p \in Range(properties_[o]) \cup Range(ownedProperties_[o]) :
            pstate[p] = "live"

\* =================================================================== claims
AddOps == {"add", "addOwned", "addUnique"}
InsertOps == {"insert", "insertOwned", "insertUnique"}
RemoveOps == {"removeById", "removeByPtr", "removeByIndex", "removeByIterator"}

\* the object is a PropertyOwner after the step
IsOwnerAfter(o) ==
    \/ o \in Owners /\ constructed'[o]
    \/ o \in Props /\ pstate'[o] = "live" /\ kind'[o] = "composite"

NoteTypes(q) == [i \in 1..Len(q) |-> q[i].type]

\* C1: over addProperty (append) and removeProperty calls getProperties() is the
\* properties added and not yet removed, in the order of their adds: a successful
\* add puts the property last and keeps the rest as it was, a failed add changes
\* nothing, a remove takes out one property (the named one) and keeps the order
\* of the others, and the lists of the other owners are not touched.
C1_AddRemoveKeepOrder ==
    [][ (last'.op \in AddOps \cup RemoveOps) =>
          LET o == last'.owner
              old == properties_[o]
              new == properties_'[o]
          IN /\ (last'.op \in AddOps /\ last'.thrown = "none")
                    => new = Append(old, last'.arg) /\ ~InSeq(last'.arg, old)
             /\ last'.thrown # "none" => new = old
             /\ last'.op \in RemoveOps =>
                    \/ new = old /\ notes' = <<>>
                    \/ \E k \in 1..Len(old) :
                          /\ new = RemoveAt(old, k)
                          /\ notes'[1].prop = old[k]
                          /\ ~InSeq(old[k], new)
             /\ last'.op = "removeByPtr" =>
                    new = SelectSeq(old, LAMBDA q : q # last'.arg)
             /\ \A o2 \in OwnerIds \ {o} :
                    IsOwnerAfter(o2) => properties_'[o2] = properties_[o2]
      ]_vars

\* a property has been removed from between two others, which are still there
C1_Witness ==
    /\ last.op \in RemoveOps /\ last.thrown = "none"
    /\ notes # <<>> /\ notes[1].index = 1
    /\ Len(properties_[last.owner]) = 2

\* C2: every overload of addProperty/insertProperty throws when the candidate's
\* identifier is that of a direct child or when the candidate is the owner
\* itself; then the owner's list, side-indices and owned set are as before, the
\* candidate (if it still exists) keeps its backlink and serialization mode, and
\* no will-add or did-add is emitted.
C2_AddThrowsAtomically ==
    [][ (last'.op \in AddOps \cup InsertOps) =>
          LET o == last'.owner
              p == last'.arg
          IN /\ ((\E q \in Range(properties_[o]) : ident[q] = ident[p]) \/ p = o)
                    <=> last'.thrown = "Exception"
             /\ last'.thrown = "Exception" =>
                    /\ properties_'[o] = properties_[o]
                    /\ eventProperties_'[o] = eventProperties_[o]
                    /\ compositeProperties_'[o] = compositeProperties_[o]
                    /\ ownedProperties_'[o] = ownedProperties_[o]
                    /\ pstate'[p] = "live" =>
                          owner_'[p] = owner_[p] /\ serMode'[p] = serMode[p]
                    /\ \A i \in 1..Len(notes') : notes'[i].type \notin {"willAdd", "didAdd"}
      ]_vars

\* an add was refused because another child has the candidate's identifier
C2_Witness ==
    /\ last.op \in AddOps \cup InsertOps /\ last.thrown = "Exception"
    /\ last.arg # last.owner
    /\ properties_[last.owner] # <<>>
    /\ ~InSeq(last.arg, properties_[last.owner])

\* an owner was asked to add itself
C2_SelfAdd ==
    /\ last.op \in AddOps \cup InsertOps /\ last.thrown = "Exception"
    /\ last.arg = last.owner

\* C3: a copy-constructed PropertyOwner has no observers, whatever observers its
\* source has: the adds made while it is constructed and every later add or
\* remove on it are delivered only to observers that were registered on the copy
\* itself, and an owner gets an observer in no other way than addObserver on it.
C3_CopyHasNoObservers ==
    /\ [](last.op = "copyConstruct" =>
             /\ observers[last.owner] = {}
             /\ \A i \in 1..Len(notes) :
                    notes[i].owner = last.owner => notes[i].to = {})
    /\ [][ /\ \A o \in Owners :
                 observers'[o] \subseteq
                     observers[o] \cup
                     (IF last'.op = "addObserver" /\ last'.owner = o
                      THEN Observers ELSE {})
           /\ \A i \in 1..Len(notes') :
                 notes'[i].to \subseteq
                     (IF notes'[i].owner \in Owners
                      THEN observers[notes'[i].owner] ELSE {})
         ]_vars

\* an observed owner with owned properties has just been copied
C3_Witness ==
    /\ last.op = "copyConstruct"
    /\ observers[last.arg] # {}
    /\ notes # <<>>

\* the copy has added a property while its source is observed and it is not
C3_WitnessLater ==
    /\ constructed[102] /\ observers[101] # {} /\ observers[102] = {}
    /\ last.op \in AddOps /\ last.owner = 102 /\ last.thrown = "none"

\* C4: the copy holds one clone per property the source owns, in the order of
\* the source's owned container, and none for the properties the source only
\* refers to; each clone is a new object (listed nowhere else) with the
\* identifier, type and value of its original, owned by the copy, with its
\* backlink naming the copy; the source is not changed by the copy; and an add,
\* remove or value change made on one owner changes neither the lists of another
\* owner nor the values or existence of that owner's properties.
C4_CopyIsDeepAndIndependent ==
    /\ [](last.op = "copyConstruct" =>
             LET dst == last.owner
                 src == last.arg
                 orig == ownedProperties_[src]
                 cl == properties_[dst]
             IN /\ Len(cl) = Len(orig)
                /\ ownedProperties_[dst] = cl
                /\ Cardinality(Range(cl)) = Len(cl)
                /\ \A i \in 1..Len(cl) :
                      /\ i <= Len(orig)
                      /\ cl[i] # orig[i]
                      /\ pstate[cl[i]] = "live"
                      /\ ListedIn(cl[i]) = {dst}
                      /\ OwnedBy(cl[i]) = {dst}
                      /\ owner_[cl[i]] = dst
                      /\ ident[cl[i]] = ident[orig[i]]
                      /\ kind[cl[i]] = kind[orig[i]]
                      /\ value[cl[i]] = value[orig[i]])
    /\ [][ /\ last'.op = "copyConstruct" =>
                 LET src == last'.arg
                 IN /\ properties_'[src] = properties_[src]
                    /\ ownedProperties_'[src] = ownedProperties_[src]
                    /\ eventProperties_'[src] = eventProperties_[src]
                    /\ compositeProperties_'[src] = compositeProperties_[src]
                    /\ \A q \in Range(properties_[src]) :
                          /\ owner_'[q] = owner_[q] /\ value'[q] = value[q]
                          /\ pstate'[q] = pstate[q]
           /\ last'.op \in AddOps \cup RemoveOps \cup {"set"} =>
                 \A o \in Owners \ {last'.owner} :
                    /\ properties_'[o] = properties_[o]
                    /\ ownedProperties_'[o] = ownedProperties_[o]
                    /\ eventProperties_'[o] = eventProperties_[o]
                    /\ compositeProperties_'[o] = compositeProperties_[o]
                    /\ \A q \in Range(properties_[o]) :
                          value'[q] = value[q] /\ pstate'[q] = pstate[q]
         ]_vars

\* a source with two owned properties and one it only refers to has been copied
C4_Witness ==
    /\ last.op = "copyConstruct"
    /\ Len(ownedProperties_[last.arg]) = 2
    /\ Len(properties_[last.arg]) = 3
    /\ Len(properties_[last.owner]) = 2

\* the value of a clone differs from the value of its original
C4_WitnessValue ==
    /\ constructed[102]
    /\ \E i \in 1..Len(properties_[102]) :
          /\ i <= Len(ownedProperties_[101])
          /\ ident[properties_[102][i]] = ident[ownedProperties_[101][i]]
          /\ value[properties_[102][i]] # value[ownedProperties_[101][i]]

\* C5: a successful insert emits will-add before the property is in the list
\* and did-add after it is in the list with its backlink set to the owner; a
\* remove emits will-remove while the property is in the list with its backlink
\* set and did-remove after it has left the list and its backlink is null; the
\* two notifications of a pair follow each other and carry the same owner,
\* property and index.
C5_TwoPhaseNotifications ==
    last.op \in AddOps \cup InsertOps \cup RemoveOps \cup {"clear"} =>
      /\ (last.op \in AddOps \cup InsertOps /\ last.thrown = "none") =>
            /\ NoteTypes(notes) = <<"willAdd", "didAdd">>
            /\ notes[1].owner = last.owner /\ notes[1].prop = last.arg
      /\ \A i \in 1..Len(notes) :
            LET n == notes[i]
                SamePair(a, b) ==
                    a.owner = b.owner /\ a.prop = b.prop /\ a.index = b.index
            IN /\ n.type = "willAdd" =>
                    /\ ~n.listed
                    /\ i < Len(notes) /\ notes[i + 1].type = "didAdd"
                    /\ SamePair(n, notes[i + 1])
               /\ n.type = "didAdd" =>
                    /\ n.listed /\ n.backlink = n.owner
                    /\ i > 1 /\ notes[i - 1].type = "willAdd"
               /\ n.type = "willRemove" =>
                    /\ n.listed /\ n.backlink # NULL
                    /\ i < Len(notes) /\ notes[i + 1].type = "didRemove"
                    /\ SamePair(n, notes[i + 1])
               /\ n.type = "didRemove" =>
                    /\ ~n.listed /\ n.backlink = NULL
                    /\ i > 1 /\ notes[i - 1].type = "willRemove"

\* the calls of removeProperty that take an identifier, a pointer or an iterator
RemoveLookupOps == {"removeById", "removeByPtr", "removeByIterator"}

\* the member such a call names, NULL when it names none
Named(call) ==
    LET q == properties_[call.owner]
    IN CASE call.op = "removeById" ->
              (IF \E i \in 1..Len(q) : ident[q[i]] = IdSeq[call.index]
               THEN q[CHOOSE i \in 1..Len(q) :
                        /\ ident[q[i]] = IdSeq[call.index]
                        /\ \A j \in 1..(i - 1) : ident[q[j]] # IdSeq[call.index]]
               ELSE NULL)
         [] call.op = "removeByPtr" ->
              (IF InSeq(call.arg, q) THEN call.arg ELSE NULL)
         [] OTHER ->
              (IF call.index < Len(q) THEN q[call.index + 1] ELSE NULL)

\* C6 as stated: removeProperty by identifier, pointer or iterator returns the
\* pointer of the property it removed, whose backlink is then null, and returns
\* nullptr exactly when no such property is a member.
C6_ReturnsRemovedPointer ==
    [][ last'.op \in RemoveLookupOps =>
          LET p == Named(last')
          IN /\ p # NULL => last'.ret = p /\ owner_'[p] = NULL
             /\ last'.ret = NULL <=> p = NULL
      ]_vars

\* C6 as amended: removeProperty by identifier, pointer or iterator removes the
\* named member; it returns that member's pointer, with the backlink null, when
\* the owner does not own it; it returns nullptr when the owner owns it (the
\* property is destroyed) and when no such property is a member, and in this
\* last case the owner is unchanged and nothing is notified.
C6_ReturnsPointerUnlessOwned ==
    [][ last'.op \in RemoveLookupOps =>
          LET o == last'.owner
              p == Named(last')
          IN /\ last'.thrown = "none"
             /\ (p # NULL /\ ~InSeq(p, ownedProperties_[o])) =>
                    /\ last'.ret = p /\ owner_'[p] = NULL /\ pstate'[p] = "live"
                    /\ ~InSeq(p, properties_'[o])
             /\ (p # NULL /\ InSeq(p, ownedProperties_[o])) =>
                    /\ last'.ret = NULL /\ pstate'[p] = "free"
                    /\ ~InSeq(p, properties_'[o]) /\ ~InSeq(p, ownedProperties_'[o])
             /\ p = NULL =>
                    /\ last'.ret = NULL /\ notes' = <<>>
                    /\ UNCHANGED <<properties_, eventProperties_, compositeProperties_,
                                   ownedProperties_, owner_, pstate, serMode>>
      ]_vars

\* an owned property was removed by its identifier and nullptr came back
C6_Witness ==
    /\ last.op = "removeById" /\ last.ret = NULL
    /\ notes # <<>> /\ notes[1].owner = last.owner
    /\ pstate[notes[1].prop] = "free"

\* a property that is not owned was removed and its pointer came back
C6_WitnessPointer ==
    /\ last.op \in RemoveLookupOps /\ last.ret # NULL
    /\ owner_[last.ret] = NULL

\* C7: removeProperty(index) with index >= size() throws a RangeException and
\* changes and notifies nothing; with index < size() it removes exactly the
\* property at that position.
C7_RemoveByIndex ==
    [][ last'.op = "removeByIndex" =>
          LET o == last'.owner
              i == last'.index
              old == properties_[o]
          IN /\ i >= Len(old) =>
                    /\ last'.thrown = "RangeException" /\ notes' = <<>>
                    /\ UNCHANGED <<properties_, eventProperties_, compositeProperties_,
                                   ownedProperties_, owner_, pstate, serMode>>
             /\ i < Len(old) =>
                    /\ last'.thrown = "none"
                    /\ properties_'[o] = RemoveAt(old, i + 1)
                    /\ notes'[1].prop = old[i + 1] /\ notes'[1].index = i
                    /\ owner_'[old[i + 1]] = NULL
      ]_vars

\* an index equal to the size of a non-empty owner was refused
C7_Witness ==
    /\ last.op = "removeByIndex" /\ last.thrown = "RangeException"
    /\ last.index = Len(properties_[last.owner])
    /\ properties_[last.owner] # <<>>

\* the property at a position that is not the first was removed by index
C7_WitnessRemoved ==
    /\ last.op = "removeByIndex" /\ last.thrown = "none"
    /\ last.index > 0 /\ notes # <<>>

\* C8: move(prop, newIndex) of a member with newIndex < size() returns true,
\* puts prop at newIndex, keeps the members and the order of the others, and
\* emits will-remove and did-remove with the old index, then will-add and
\* did-add with newIndex; for a non-member it returns false, changes nothing and
\* emits nothing.
C8_Move ==
    [][ last'.op = "move" =>
          LET o == last'.owner
              p == last'.arg
              n == last'.index
              old == properties_[o]
              new == properties_'[o]
              was == FindPos(old, {p}) - 1
          IN /\ InSeq(p, old) =>
                    /\ last'.ret = 1
                    /\ Len(new) = Len(old) /\ new[n + 1] = p
                    /\ SelectSeq(new, LAMBDA q : q # p) = SelectSeq(old, LAMBDA q : q # p)
                    /\ NoteTypes(notes') = <<"willRemove", "didRemove", "willAdd", "didAdd">>
                    /\ \A i \in 1..4 : notes'[i].prop = p /\ notes'[i].owner = o
                    /\ notes'[1].index = was /\ notes'[2].index = was
                    /\ notes'[3].index = n /\ notes'[4].index = n
                    /\ UNCHANGED <<eventProperties_, compositeProperties_,
                                   ownedProperties_, owner_, pstate, serMode>>
             /\ ~InSeq(p, old) =>
                    /\ last'.ret = 0 /\ notes' = <<>>
                    /\ UNCHANGED <<properties_, eventProperties_, compositeProperties_,
                                   ownedProperties_, owner_, pstate, serMode>>
      ]_vars

\* the first of three members has been moved to the middle
C8_Witness ==
    /\ last.op = "move" /\ last.ret = 1
    /\ Len(properties_[last.owner]) = 3
    /\ notes[1].index = 0 /\ notes[3].index = 1

\* a property that is not a member was not moved
C8_WitnessNotMember ==
    /\ last.op = "move" /\ last.ret = 0
    /\ properties_[last.owner] # <<>>

MoveOps == {"moveConstruct", "moveAssign"}

\* what C9 says of a move from src to dst
Transferred(src, dst) ==
    LET owned == ownedProperties_[src]
    IN /\ ownedProperties_'[dst] = owned
       /\ \A p \in Range(owned) :
              /\ InSeq(p, properties_'[dst])
              /\ owner_'[p] = dst /\ pstate'[p] = "live"
       /\ properties_'[src] = <<>> /\ ownedProperties_'[src] = <<>>
       /\ eventProperties_'[src] = <<>> /\ compositeProperties_'[src] = <<>>
       /\ Range(properties_'[dst]) \cap Range(properties_'[src]) = {}
       /\ Range(ownedProperties_'[dst]) \cap Range(ownedProperties_'[src]) = {}
       /\ \A p \in Range(properties_[dst]) : ~InSeq(p, properties_'[dst])

\* C9 as stated: after a move construction or a move assignment every property
\* the source owned is listed in and owned by the destination with its backlink
\* naming the destination, the source has no properties and owns none, no
\* property is listed or owned by both, and the previous properties of the
\* destination of a move assignment are removed.
C9_MoveTransfersOwnership ==
    [][ last'.op \in MoveOps => Transferred(last'.arg, last'.owner) ]_vars

\* C9 as amended: the same, when source and destination are two objects, and
\* the destination then lists exactly the properties the source owned, in their
\* order; a move assignment of an object to itself changes and notifies nothing.
C9_MoveTransfersBetweenTwo ==
    [][ last'.op \in MoveOps =>
          LET src == last'.arg
              dst == last'.owner
          IN /\ src # dst =>
                    /\ Transferred(src, dst)
                    /\ properties_'[dst] = ownedProperties_[src]
                    /\ \A i \in 1..Len(notes') : notes'[i].type \in {"willRemove", "didRemove"}
                    /\ \A i \in 1..Len(notes'), j \in 1..Len(notes') :
                           (notes'[i].owner = dst /\ notes'[j].owner = src) => i < j
                    /\ \A p \in Range(properties_[dst]) :
                           \E i \in 1..Len(notes') :
                               notes'[i].owner = dst /\ notes'[i].prop = p
             /\ src = dst =>
                    /\ notes' = <<>>
                    /\ UNCHANGED <<properties_, eventProperties_, compositeProperties_,
                                   ownedProperties_, owner_, pstate, observers>>
      ]_vars

\* a move assignment has taken two owned properties to a destination that had
\* properties of its own
C9_Witness ==
    /\ last.op = "moveAssign" /\ last.owner # last.arg
    /\ Len(ownedProperties_[last.owner]) = 2
    /\ \E i \in 1..Len(notes) : notes[i].owner = last.owner

\* a move construction has taken an owned property and left a referenced one
C9_WitnessConstruct ==
    /\ last.op = "moveConstruct"
    /\ ownedProperties_[last.owner] # <<>>
    /\ \E i \in 1..Len(notes) : notes[i].owner = last.arg

\* an object with properties has been move-assigned to itself
C9_WitnessSelf ==
    /\ last.op = "moveAssign" /\ last.owner = last.arg
    /\ properties_[last.owner] # <<>>

\* C10: every property is listed by at most one PropertyOwner, and its owner
\* backlink names that PropertyOwner, whatever was added, inserted, removed or
\* moved on several owners, a member of one owner added to another included.
C10_ListedInOneOwner ==
    \A p \in Props :
        pstate[p] = "live" =>
            /\ Cardinality(ListedIn(p)) <= 1
            /\ \A o \in ListedIn(p) : owner_[p] = o

\* C11: invalidate(level) stores max(previous level, level); no call other than
\* setValid() lowers the stored level of a PropertyOwner; after setValid() the
\* owner is valid and every direct child has been set valid.
C11_InvalidationLevelOnlyRises ==
    [][ /\ last'.op = "invalidate" =>
              LET o == last'.owner
                  level == last'.index
              IN /\ invalidationLevel_'[o] = IF invalidationLevel_[o] >= level
                                            THEN invalidationLevel_[o] ELSE level
                 /\ \A q \in OwnerIds \ {o} : invalidationLevel_'[q] = invalidationLevel_[q]
        /\ last'.op # "setValid" =>
              \A o \in OwnerIds :
                  (IsOwner(o) /\ IsOwnerAfter(o)) =>
                      invalidationLevel_'[o] >= invalidationLevel_[o]
        /\ last'.op = "setValid" =>
              LET o == last'.owner
              IN /\ invalidationLevel_'[o] = Valid
                 /\ \A p \in Range(properties_[o]) :
                        /\ ~propertyModified_'[p]
                        /\ kind[p] = "composite" => invalidationLevel_'[p] = Valid
                 /\ UNCHANGED <<properties_, owner_, pstate>>
      ]_vars

\* invalidate was called with a level below the stored one, which stays
C11_Witness ==
    /\ last.op = "invalidate"
    /\ last.index < invalidationLevel_[last.owner]

\* setValid was called on an owner whose composite child has a child of its own,
\* while a property outside of it stays modified
C11_WitnessSetValid ==
    /\ last.op = "setValid" /\ last.owner \in Owners
    /\ \E p \in Range(properties_[last.owner]) :
           kind[p] = "composite" /\ properties_[p] # <<>>
    /\ \E q \in Props : propertyModified_[q]

\* the segments of a path: the texts between its '.' characters
RECURSIVE Segments(_)
Segments(path) ==
    LET split == splitByFirst(path)
    IN IF "." \notin Range(path) THEN <<path>>
       ELSE <<split.first>> \o Segments(split.rest)

\* the segments resolved one at a time among the direct children: all but the
\* last among the composite children, the last among the properties
RECURSIVE Resolve(_, _)
Resolve(o, segs) ==
    LET named == {p \in Range(properties_[o]) :
                     /\ ident[p] = Str(Head(segs))
                     /\ Len(segs) > 1 => kind[p] = "composite"}
    IN IF named = {} THEN NULL
       ELSE IF Len(segs) = 1 THEN CHOOSE p \in named : TRUE
       ELSE Resolve(CHOOSE p \in named : TRUE, Tail(segs))

\* C12: getPropertyByPath returns the property that resolving the segments of
\* the path one at a time among direct children gives, and nullptr for an empty
\* path or when a segment names no child at its level.
C12_PathResolvesBySegments ==
    last.op = "getPropertyByPath" =>
        last.ret = Resolve(last.owner, Segments(last.index))

\* the same for the paths that do not end in a '.'
C12_PathWithoutTrailingDot ==
    (last.op = "getPropertyByPath" /\ last.index # <<>>
        /\ last.index[Len(last.index)] # ".") =>
        last.ret = Resolve(last.owner, Segments(last.index))

\* a property of the third level has been found by its path
C12_WitnessDeep ==
    /\ last.op = "getPropertyByPath" /\ last.index = <<"x", ".", "x", ".", "y">>
    /\ last.ret # NULL /\ owner_[last.ret] \notin {NULL, last.owner}

\* the pairs <<q, p>> with p downstream of q through one or more of the connections
RECURSIVE Downstream(_, _)
Downstream(cs, n) ==
    IF n = 0 THEN {<<c.outport[1], c.inport[1]>> : c \in cs}
    ELSE LET r == Downstream(cs, n - 1)
         IN r \cup {e \in Procs \X Procs :
                       \E b \in Procs : <<e[1], b>> \in r /\ <<b, e[2]>> \in r}

\* squaring three times covers every path of up to eight connections
Reach(cs) == Downstream(cs, 3)

\* C13: when the active connections form no cycle, every processor of the list
\* topologicalSortFiltered returns stands after every processor that feeds it
\* through an active connection; topologicalSort does so with every connection
\* taken as active.
C13_SortedAfterUpstream ==
    last.op \in {"topologicalSort", "topologicalSortFiltered"} =>
        LET sorted == last.ret
            active == IF last.op = "topologicalSort" THEN network.connections
                      ELSE network.connections \ network.inactive
        IN (\A p \in Procs : <<p, p>> \notin Reach(active)) =>
               /\ \A i, j \in 1..Len(sorted) : sorted[i] = sorted[j] => i = j
               /\ network.sinks \subseteq Range(sorted)
               /\ \A c \in active :
                      \A j \in 1..Len(sorted) :
                          sorted[j] = c.inport[1] =>
                              \E i \in 1..(j - 1) : sorted[i] = c.outport[1]

\* two sinks share an upstream processor, and a cycle is cut by an inactive connection
C13_Witness ==
    /\ last.op = "topologicalSortFiltered" /\ Len(last.ret) = 4
    /\ Cardinality(network.sinks) = 2
    /\ \E p \in Procs : network.sinks \subseteq getDirectSuccessors(network, p)
    /\ network.inactive # {}
    /\ \E p \in Procs : <<p, p>> \in Reach(network.connections)
    /\ \A p \in Procs : <<p, p>> \notin Reach(network.connections \ network.inactive)

\* C14: the direct predecessors and successors of p are the processors one
\* connection away from p; getPredecessors and getSuccessors are the upstream
\* and downstream closures; the direct sets lie within them; q is a successor
\* of p exactly when p is a predecessor of q.
C14_DirectAndTransitive ==
    last.op = "neighbours" =>
        LET p == last.arg
            r == last.ret
            edges == Downstream(network.connections, 0)
            reach == Reach(network.connections)
        IN /\ r.directPredecessors = {q \in Procs : <<q, p>> \in edges}
           /\ r.directSuccessors = {q \in Procs : <<p, q>> \in edges}
           /\ r.predecessors \ {p} = {q \in Procs : <<q, p>> \in reach} \ {p}
           /\ r.successors \ {p} = {q \in Procs : <<p, q>> \in reach} \ {p}
           /\ r.directPredecessors \subseteq r.predecessors
           /\ r.directSuccessors \subseteq r.successors
           /\ \A q \in Procs : q \in r.successors <=> p \in getPredecessors(network, q)
           /\ \A q \in Procs : q \in r.predecessors <=> p \in getSuccessors(network, q)

\* a processor has a predecessor that is two connections away and not direct
C14_Witness ==
    /\ last.op = "neighbours"
    /\ last.ret.predecessors \ (last.ret.directPredecessors \cup {last.arg}) # {}
    /\ last.ret.directSuccessors # {}

\* C15 as stated: a connection is written as internal when the processors of
\* both its ends are selected, as external when exactly one of them is,
\* whichever end, and is not written when neither is; none is in both lists.
C15_ConnectionsByEndpoints ==
    last.op = "serializeSelected" =>
        LET doc == clipboard[1].connections
        IN \A c \in network.connections :
               LET e == NetworkEdge(network, c.outport, c.inport)
                   in == c.inport[1] \in network.selected
                   out == c.outport[1] \in network.selected
               IN /\ e \in doc.internal <=> (in /\ out)
                  /\ e \in doc.external <=> (in # out)

\* C15 as amended: a connection is written as internal when the processors of
\* both its ends are selected, as external when the processor of its inport
\* is selected and that of its outport is not, and is not written otherwise: a
\* connection that leaves the selection is omitted.  No connection is in both
\* lists and nothing else is written.
C15_ConnectionsByInport ==
    last.op = "serializeSelected" =>
        LET doc == clipboard[1].connections
            edges == {NetworkEdge(network, c.outport, c.inport) : c \in network.connections}
        IN /\ \A c \in network.connections :
                  LET e == NetworkEdge(network, c.outport, c.inport)
                      in == c.inport[1] \in network.selected
                      out == c.outport[1] \in network.selected
                  IN /\ e \in doc.internal <=> (in /\ out)
                     /\ e \in doc.external <=> (in /\ ~out)
           /\ doc.internal \cup doc.external \subseteq edges
           /\ doc.internal \cap doc.external = {}

\* an internal connection, one that enters and one that leaves the selection
C15_Witness ==
    /\ last.op = "serializeSelected"
    /\ clipboard[1].connections.internal # {}
    /\ clipboard[1].connections.external # {}
    /\ \E c \in network.connections :
           c.outport[1] \in network.selected /\ c.inport[1] \notin network.selected

\* C16: a link with an end in a selected processor is written to exactly one
\* list: internal when both ends are selected, out-going when only the source
\* is, in-coming when only the destination is; other links are not written.
C16_LinksInThreeLists ==
    last.op = "serializeSelected" =>
        LET doc == clipboard[1].links
            edges == {NetworkEdge(network, l.src, l.dst) : l \in network.links}
        IN /\ \A l \in network.links :
                  LET e == NetworkEdge(network, l.src, l.dst)
                      srcInt == l.src[1] \in network.selected
                      dstInt == l.dst[1] \in network.selected
                  IN /\ e \in doc.internal <=> (srcInt /\ dstInt)
                     /\ e \in doc.out <=> (srcInt /\ ~dstInt)
                     /\ e \in doc.in <=> (~srcInt /\ dstInt)
           /\ doc.internal \cup doc.out \cup doc.in \subseteq edges

\* links of the three kinds and one with no selected end
C16_Witness ==
    /\ last.op = "serializeSelected"
    /\ clipboard[1].links.internal # {}
    /\ clipboard[1].links.out # {}
    /\ clipboard[1].links.in # {}

\* a link between unselected processors is left out
C16_WitnessOmitted ==
    /\ last.op = "serializeSelected" /\ network.selected # {}
    /\ \E l \in network.links : {l.src[1], l.dst[1]} \cap network.selected = {}

Pasted(step) == last.op = "appendPartialProcessorNetwork" /\ step

\* the connection or link between the counterparts f of the ends of edge e
Counterpart(f, e) == [from |-> <<f[e.src[1]], e.src[2]>>, to |-> <<f[e.dst[1]], e.dst[2]>>]

Ends(cs, ls) ==
    {[from |-> c.outport, to |-> c.inport] : c \in cs} \cup {[from |-> l.src, to |-> l.dst] : l \in ls}

\* C17: a paste adds one new processor per copied processor, each with an
\* identifier that no processor of the network had and that no other pasted
\* processor has; the internal connections and links of the copy connect and
\* link the pasted counterparts, and are the only connections and links among
\* the pasted processors; what was connected or linked among the processors
\* already there is unchanged; an external connection whose far end is not in
\* the network adds no connection, and the paste does not fail.
C17_PasteRemapsIdentifiers ==
    [][last'.op = "appendPartialProcessorNetwork" =>
        LET doc == clipboard[1]
            added == Range(last'.ret)
            oldIds == {network.identifier[p] : p \in network.processors}
            among(n, ps) ==
                [connections |-> {c \in n.connections : {c.outport[1], c.inport[1]} \subseteq ps},
                 links |-> {l \in n.links : {l.src[1], l.dst[1]} \subseteq ps}]
        IN /\ last'.thrown = "none"
           /\ Len(last'.ret) = Cardinality(doc.processors)
           /\ Cardinality(added) = Len(last'.ret)
           /\ added \cap network.processors = {}
           /\ network'.processors = network.processors \cup added
           /\ \A p \in added :
                  /\ network'.identifier[p] \notin oldIds
                  /\ \A q \in added \ {p} : network'.identifier[q] # network'.identifier[p]
           /\ \A p \in network.processors : network'.identifier[p] = network.identifier[p]
           /\ \E f \in [doc.processors -> added] :
                  /\ among(network', added).connections =
                         {[outport |-> Counterpart(f, e).from, inport |-> Counterpart(f, e).to] :
                              e \in doc.connections.internal}
                  /\ among(network', added).links =
                         {[src |-> Counterpart(f, e).from, dst |-> Counterpart(f, e).to] :
                              e \in doc.links.internal}
                  /\ \A e \in doc.connections.external :
                         e.src[1] \notin oldIds =>
                             \A c \in network'.connections :
                                 c.inport = <<f[e.dst[1]], e.dst[2]>> => c.outport[1] \in added
           /\ among(network', network.processors) = among(network, network.processors)
    ]_vars

\* two processors pasted next to their originals with an internal connection
\* and an internal link, an external connection whose far end has been removed
C17_Witness ==
    /\ Pasted(Len(last.ret) >= 2)
    /\ \E i \in DOMAIN notes : notes[i].type = "internalConnection" /\ notes[i].ok
    /\ \E i \in DOMAIN notes : notes[i].type = "internalLink" /\ notes[i].ok
    /\ \E i \in DOMAIN notes : notes[i].type = "externalConnection" /\ ~notes[i].ok
    /\ \E p \in network.processors \ Range(last.ret) : p \notin network.selected

\* the five lists of a document, with the name of the step that materializes
\* an item of each
Lists(doc) ==
    [internalConnection |-> doc.connections.internal,
     externalConnection |-> doc.connections.external,
     internalLink |-> doc.links.internal,
     outLink |-> doc.links.out,
     inLink |-> doc.links.in]

Steps(type) == {i \in DOMAIN notes : notes[i].type = type}
EdgeSteps == {i \in DOMAIN notes : notes[i].type \in DOMAIN Lists(clipboard[1])}

\* C18: in a paste every connection and link of the five lists is attempted
\* once, whether or not another one failed; the ones that succeed are in the
\* network, with their remapped ends in pasted processors; auto-linking runs
\* for every pasted processor; the pasted processors stay in the network and
\* no exception escapes.
C18_FailedItemIsSkipped ==
    last.op = "appendPartialProcessorNetwork" =>
        LET doc == Lists(clipboard[1])
            added == Range(last.ret)
            srcUpdated == {"internalConnection", "internalLink", "outLink"}
            dstUpdated == {"internalConnection", "externalConnection", "internalLink", "inLink"}
            end(list, updated, id, port, at) ==
                /\ at[2] = port /\ at[1] \in network.processors
                /\ IF list \in updated THEN at[1] \in added
                   ELSE network.identifier[at[1]] = id /\ at[1] \notin added
            made(list, e) ==
                \E x \in Ends(network.connections, {}) :
                    /\ list \in {"internalConnection", "externalConnection"}
                    /\ end(list, srcUpdated, e.src[1], e.src[2], x.from)
                    /\ end(list, dstUpdated, e.dst[1], e.dst[2], x.to)
            linked(list, e) ==
                \E x \in Ends({}, network.links) :
                    /\ list \in {"internalLink", "outLink", "inLink"}
                    /\ end(list, srcUpdated, e.src[1], e.src[2], x.from)
                    /\ end(list, dstUpdated, e.dst[1], e.dst[2], x.to)
        IN /\ last.thrown = "none"
           /\ added \subseteq network.processors
           /\ \A list \in DOMAIN doc : \A e \in doc[list] :
                  /\ Cardinality({i \in Steps(list) : notes[i].item = e}) = 1
                  /\ \A i \in Steps(list) :
                         notes[i].item = e /\ notes[i].ok => made(list, e) \/ linked(list, e)
           /\ \A p \in added : \E i \in Steps("autoLink") : notes[i].item = p

\* an external connection, an out-going and an in-coming link fail because
\* the processor at their far end has been removed; internal ones, attempted
\* before and after, succeed
C18_Witness ==
    /\ Pasted(Len(last.ret) >= 2)
    /\ \E i, j, k, l \in EdgeSteps :
           /\ i < j /\ j < k /\ k < l
           /\ notes[i].type = "internalConnection" /\ notes[i].ok
           /\ notes[j].type = "externalConnection" /\ ~notes[j].ok
           /\ notes[k].type = "internalLink" /\ notes[k].ok
           /\ notes[l].type \in {"outLink", "inLink"} /\ ~notes[l].ok
    /\ Steps("autoLink") # {}

\* a failed in-coming link is followed by one that succeeds in the same list
C18_WitnessSameList ==
    /\ Pasted(TRUE)
    /\ \E i, j \in Steps("inLink") : i < j /\ ~notes[i].ok /\ notes[j].ok

\* C19: the steps of a paste are in this order: the offset callback, when one
\* is given, once and with all pasted processors, before any processor is
\* added; every processor added before any connection or link is
\* materialized; every connection and link materialized before the AutoLinker
\* runs; the AutoLinker once for each added processor and for no other.
C19_PasteOrder ==
    last.op = "appendPartialProcessorNetwork" =>
        LET added == Range(last.ret)
        IN /\ IF last.arg = 1
              THEN /\ Cardinality(Steps("callback")) = 1
                   /\ \A i \in Steps("callback") : notes[i].item = added
              ELSE Steps("callback") = {}
           /\ \A i \in Steps("callback"), j \in Steps("addProcessor") : i < j
           /\ \A p \in added :
                  Cardinality({i \in Steps("addProcessor") : notes[i].item = p}) = 1
           /\ \A i \in Steps("addProcessor"), j \in EdgeSteps : i < j
           /\ Cardinality(EdgeSteps) =
                  Cardinality(UNION {Lists(clipboard[1])[list] \X {list} :
                                         list \in DOMAIN Lists(clipboard[1])})
           /\ \A i \in EdgeSteps \cup Steps("addProcessor"), j \in Steps("autoLink") : i < j
           /\ \A p \in Procs :
                  Cardinality({i \in Steps("autoLink") : notes[i].item = p}) =
                      IF p \in added THEN 1 ELSE 0

\* a paste with a callback, two processors, connections and links, next to
\* processors that were there before
C19_Witness ==
    /\ Pasted(Len(last.ret) >= 2 /\ last.arg = 1)
    /\ Cardinality(EdgeSteps) >= 3
    /\ network.processors \ Range(last.ret) # {}

\* a paste without a callback
C19_WitnessNoCallback ==
    /\ Pasted(last.arg = 0 /\ last.ret # <<>>)
    /\ EdgeSteps # {}

\* C20: after replaceProcessor(network, new, old) has returned, old is not in
\* the network, new is in the network under the identifier old had, no
\* connection and no link of the network has an end in old, and the processor
\* returned is old.
C20_OldProcessorIsGone ==
    [][last'.op = "replaceProcessor" =>
        LET old == last'.arg
            new == last'.index
        IN /\ old \notin network'.processors
           /\ new \in network'.processors
           /\ network'.identifier[new] = network.identifier[old]
           /\ \A c \in network'.connections : old \notin {c.outport[1], c.inport[1]}
           /\ \A l \in network'.links : old \notin {l.src[1], l.dst[1]}
           /\ last'.ret = old
    ]_vars

\* a processor with connections at an inport and at its outport, a link to
\* it, a link from it and a link between two of its own properties has been
\* replaced, and the new processor has taken connections and links over
C20_Witness ==
    /\ last.op = "replaceProcessor"
    /\ \E c, d \in network.connections : c.inport[1] = 2 /\ d.outport[1] = 2
    /\ \E l, m \in network.links : l.dst[1] = 2 /\ m.src[1] = 2 /\ l.src[1] # 2

\* the ports connected to the j-th inport (in = TRUE) or outport of p in n
Peers(n, p, in, j) ==
    IF in THEN {c.outport : c \in {x \in n.connections : x.inport = <<p, j>>}}
    ELSE {c.inport : c \in {x \in n.connections : x.outport = <<p, j>>}}

PortsOf(n, p, in) == 1..Len(IF in THEN n.inports[p] ELSE n.outports[p])

\* the k-th port of new can connect to every peer of the j-th port of old
CanTake(n, new, old, in, k, j) ==
    \A x \in Peers(n, old, in, j) :
        IF in THEN canConnectTo(n, <<new, k>>, x) ELSE canConnectTo(n, x, <<new, k>>)

\* a new port has no connection or all the connections of one old port, all of
\* which it can connect to, and no two new ports those of the same old port
TransferredFromOnePort(in) ==
    LET old == last'.arg
        new == last'.index
    IN \E f \in [PortsOf(network, new, in) -> PortsOf(network, old, in) \cup {0}] :
           /\ \A k \in DOMAIN f :
                  IF f[k] = 0 THEN Peers(network', new, in, k) = {}
                  ELSE /\ Peers(network', new, in, k) = Peers(network, old, in, f[k])
                       /\ CanTake(network, new, old, in, k, f[k])
           /\ \A k, l \in DOMAIN f : k # l /\ f[k] # 0 => f[k] # f[l]

\* when each connected old port that some new port can take can be given a new
\* port of its own, the connections of all of them are on new afterwards
TakenWhenAvailable(in) ==
    LET old == last'.arg
        new == last'.index
        wanted == {j \in PortsOf(network, old, in) :
                       /\ Peers(network, old, in, j) # {}
                       /\ \E k \in PortsOf(network, new, in) :
                              CanTake(network, new, old, in, k, j)}
        available == \E g \in [wanted -> PortsOf(network, new, in)] :
                         /\ \A j \in wanted : CanTake(network, new, old, in, g[j], j)
                         /\ \A i, j \in wanted : i # j => g[i] # g[j]
    IN available =>
           \A j \in wanted : \E k \in PortsOf(network, new, in) :
               Peers(network, old, in, j) \subseteq Peers(network', new, in, k)

\* C21 as stated: replaceProcessor gives a new inport nothing or the complete
\* set of connections of one old inport, all of whose outports it can connect
\* to; and when the old processor has a connected inport and the new one an
\* inport that can connect to all of that inport's outports, one for each such
\* old inport, those connections are on the new processor afterwards; the same
\* for the outports.
C21_PortwiseTransfer ==
    [][last'.op = "replaceProcessor" =>
        \A in \in BOOLEAN : TransferredFromOnePort(in) /\ TakenWhenAvailable(in)]_vars

\* C21, the part that holds: what a new port receives is the complete set of
\* connections of one old port that it can connect to.
C21_CompleteSetOfOnePort ==
    [][last'.op = "replaceProcessor" => \A in \in BOOLEAN : TransferredFromOnePort(in)]_vars

\* the new processor has taken over connections at an inport and at an outport
C21_WitnessTransferred ==
    /\ last.op = "replaceProcessor"
    /\ Peers(network, last.index, TRUE, 1) # {}
    /\ Peers(network, last.index, FALSE, 1) # {}

\* the identifiers from the processor down to property q
RECURSIVE PathBelow(_)
PathBelow(q) ==
    IF owner_[q] \in Props THEN Append(PathBelow(owner_[q]), <<ident[q]>>)
    ELSE <<<<ident[q]>>>>

\* the end of a link after the replacement: an end in another processor stays,
\* an end in old becomes the property of new at the same path, NULL when new
\* has none
NewEnd(e, old, new) ==
    IF e[1] # old THEN e ELSE <<new, Resolve(PropertyOwnerOf(new), PathBelow(e[2]))>>

\* the links among `touching` with their ends in old replaced, those with an
\* end that new does not have left out
Rewired(touching, old, new) ==
    {[src |-> NewEnd(l.src, old, new), dst |-> NewEnd(l.dst, old, new)] :
         l \in {x \in touching : /\ NewEnd(x.src, old, new)[2] # NULL
                                 /\ NewEnd(x.dst, old, new)[2] # NULL}}

\* C22 as stated: after replaceProcessor every link that had an end in the old
\* processor is in the network with that end replaced by the property of the
\* new processor at the same path, both ends when both were in the old
\* processor; a link with an end whose path the new processor does not have
\* is dropped without an error; the other links are unchanged.
C22_LinksRewiredByPath ==
    [][last'.op = "replaceProcessor" =>
        LET old == last'.arg
            new == last'.index
            touching == {l \in network.links : old \in {l.src[1], l.dst[1]}}
        IN /\ last'.thrown = "none"
           /\ network'.links = (network.links \ touching) \cup Rewired(touching, old, new)
    ]_vars

\* C22 for the links with one end in the old processor: they are rewired by
\* path or dropped; a link between two properties of the old processor is not
\* in the network afterwards.
C22_OneEndRewiredByPath ==
    [][last'.op = "replaceProcessor" =>
        LET old == last'.arg
            new == last'.index
            touching == {l \in network.links : old \in {l.src[1], l.dst[1]}}
            oneEnd == {l \in touching : l.src[1] # l.dst[1]}
        IN /\ last'.thrown = "none"
           /\ network'.links = (network.links \ touching) \cup Rewired(oneEnd, old, new)
    ]_vars

\* links to and from the old processor have been rewired to a nested and to a
\* direct property of the new one
C22_WitnessRewired ==
    /\ last.op = "replaceProcessor"
    /\ \E l, m \in network.links :
           /\ l.src = <<2, 6>> /\ l.dst[1] = 4
           /\ m.dst = <<2, 4>> /\ m.src[1] = 3

\* C23: replaceProcessor gives a property of the new processor the value of
\* the old processor's property of the same identifier when that one has the
\* same class identifier; a property of the new processor for which the old
\* one has no property of that identifier and class keeps its value.
C23_ValuesCopiedByIdAndClass ==
    [][last'.op = "replaceProcessor" =>
        LET old == PropertyOwnerOf(last'.arg)
            new == PropertyOwnerOf(last'.index)
        IN \A newProp \in Range(properties_[new]) :
               LET same == {oldProp \in Range(properties_[old]) :
                                /\ ident[oldProp] = ident[newProp]
                                /\ kind[oldProp] = kind[newProp]}
               IN IF same = {} THEN value'[newProp] = value[newProp]
                  ELSE \E oldProp \in same : value'[newProp] = value[oldProp]
    ]_vars

\* the new x has the class of the old x and has received its value
C23_Witness ==
    /\ last.op = "replaceProcessor"
    /\ InSeq(4, properties_[102]) /\ kind[4] = kind[1] /\ value[4] = value[1]
    /\ value[1] # DefaultValue

\* the new x is of another class than the old x and has kept its value
C23_WitnessOtherClass ==
    /\ last.op = "replaceProcessor"
    /\ InSeq(4, properties_[102]) /\ kind[4] # kind[1] /\ ident[4] = ident[1]
    /\ value[4] # value[1]

\* C24: addProcessorOnConnection returns false and changes nothing in the
\* network when the processor has no inport of the type of the connection's
\* outport or no outport of the type of the connection's inport; otherwise it
\* returns true, the connection is gone, the connections from its outport to
\* an inport of the processor and from an outport of the processor to its
\* inport, and no other, have been added, and the processor is in the network.
C24_SplitOrNothing ==
    [][last'.op = "addProcessorOnConnection" =>
        LET p == last'.arg
            c == last'.index
            ins == {k \in PortsOf(network, p, TRUE) :
                        network.inports[p][k] = network.outports[c.outport[1]][c.outport[2]]}
            outs == {k \in PortsOf(network, p, FALSE) :
                         network.outports[p][k] = network.inports[c.inport[1]][c.inport[2]]}
        IN IF ins = {} \/ outs = {}
           THEN last'.ret = FALSE /\ network' = network
           ELSE /\ last'.ret = TRUE
                /\ c \notin network'.connections
                /\ network'.processors = network.processors \cup {p}
                /\ \E i \in ins, o \in outs :
                       network'.connections =
                           (network.connections \ {c})
                           \cup {[outport |-> c.outport, inport |-> <<p, i>>],
                                 [outport |-> <<p, o>>, inport |-> c.inport]}
                /\ network'.links = network.links
    ]_vars

\* a processor that was not in the network has been put on a connection
C24_Witness ==
    /\ last.op = "addProcessorOnConnection" /\ last.ret = TRUE
    /\ last.arg \in network.processors
    /\ Peers(network, last.arg, TRUE, 1) \cup Peers(network, last.arg, TRUE, 2) # {}
    /\ Peers(network, last.arg, FALSE, 1) # {}
    /\ Steps("addProcessor") # {}

\* the call has failed for a processor that is not in the network
C24_WitnessFalse ==
    /\ last.op = "addProcessorOnConnection" /\ last.ret = FALSE
    /\ last.arg \notin network.processors /\ last.index \in network.connections

\* a processor of the network, given by reference, has been put on a connection
C24_WitnessReference ==
    /\ last.op = "addProcessorOnConnection" /\ last.ret = TRUE
    /\ Steps("addProcessor") = {} /\ Steps("addConnection") # {}

Rewires == {"replaceProcessor", "addProcessorOnConnection", "appendPartialProcessorNetwork"}

\* the number of locks held when step i is taken
Depth(i) ==
    Cardinality({j \in 1..(i - 1) : notes[j].type = "lock"})
    - Cardinality({j \in 1..(i - 1) : notes[j].type = "unlock"})

Changes == {i \in DOMAIN notes : notes[i].type \notin Quiet /\ notes[i].ok}

\* C25: every change of the network made by replaceProcessor,
\* addProcessorOnConnection or appendPartialProcessorNetwork, the addition of
\* the new processor included, is made while a NetworkLock is held, and the
\* network is evaluated once, when the outermost lock is released at the end.
C25_ChangesUnderOneLock ==
    last.op \in Rewires /\ Changes # {} =>
        /\ \A i \in Changes : Depth(i) > 0
        /\ evaluations(notes, 1, 0, FALSE) = {Len(notes)}

\* C25 for a replaceProcessor whose caller holds a lock, and for the other
\* functions: all changes are made under a lock and the network is evaluated
\* once, at the end.
C25_UnderCallersLock ==
    /\ last.op \in Rewires /\ Changes # {}
    /\ last.op = "replaceProcessor" => notes[1].type = "lock"
    => /\ \A i \in Changes : Depth(i) > 0
       /\ evaluations(notes, 1, 0, FALSE) = {Len(notes)}

\* a replaceProcessor that moved links and connections under a lock nested in
\* the caller's
C25_WitnessNested ==
    /\ last.op = "replaceProcessor" /\ notes[1].type = "lock"
    /\ \E i \in Changes : Depth(i) = 2 /\ notes[i].type = "addConnection"
    /\ Steps("addLink") # {}

Teardown == {"clear", "onModulesWillUnregister", "resetModule", "unload"}

\* the steps of the last call that tear something down
TornDown(log) == {i \in DOMAIN log : log[i].type \in Teardown}

\* C26: when saving the workspace fails at the start of reloadModules, the
\* call ends before any teardown: the network is not cleared,
\* onModulesWillUnregister is not invoked, no module is reset and no library is
\* unloaded; and when runtime module reloading is disabled, reloadModules
\* changes nothing at all.
C26_SaveFailureTearsNothingDown ==
    [][last'.op = "reloadModules" =>
          /\ last'.arg[1] # "ok" =>
                 /\ network' = network /\ moduleManager' = moduleManager
                 /\ TornDown(notes') = {}
          /\ ~moduleManager.runtimeModuleReloading_ =>
                 /\ network' = network /\ moduleManager' = moduleManager
                 /\ notes' = <<>> /\ last'.thrown = "none"]_vars

\* a save that failed with modules registered that a reload would reset, and a
\* network it would clear
C26_Witness ==
    /\ last.op = "reloadModules" /\ last.arg[1] = "SerializationException"
    /\ moduleManager.runtimeModuleReloading_
    /\ \E i \in DOMAIN moduleManager.inviwoModules_ :
           /\ moduleManager.inviwoModules_[i].module
           /\ ~moduleManager.inviwoModules_[i].protectedModule
    /\ network.processors # {}

\* a reload asked for while runtime module reloading is disabled
C26_WitnessDisabled ==
    /\ last.op = "reloadModules" /\ last.arg[1] = "ok"
    /\ ~moduleManager.runtimeModuleReloading_
    /\ moduleManager.inviwoModules_ # <<>> /\ network.processors # {}

\* C27: reloadModules is all-or-nothing: whenever it returns, the network
\* again holds the workspace saved at its start, or nothing was torn down.
C27_AllOrNothing ==
    [][last'.op = "reloadModules" /\ last'.thrown = "none" =>
          network' = network \/ TornDown(notes') = {}]_vars

\* C27 for the reloads whose final load of the workspace succeeds: the network
\* holds the saved workspace again.
C27_RestoredWhenLoadSucceeds ==
    [][last'.op = "reloadModules" /\ last'.thrown = "none" /\ last'.arg[2] = "ok" =>
          network' = network]_vars

\* a reload that tore the modules down, created them again and restored the
\* workspace
C27_WitnessRestored ==
    /\ last.op = "reloadModules" /\ last.arg = <<"ok", "ok">>
    /\ Steps("resetModule") # {} /\ Steps("createModule") # {} /\ Steps("load") # {}
    /\ network.processors # {}

\* the modules a module of the library set names as dependencies
Needs(m) == {d.name : d \in moduleManager.libraries[m].dependencies}

\* the modules reached from the set S over the dependencies of the modules of
\* the batch B, in at most k steps
RECURSIVE Requires(_, _, _)
Requires(B, S, k) ==
    IF k = 0 THEN S ELSE Requires(B, S \cup UNION {Needs(m) : m \in S \cap B}, k - 1)

\* all modules the module m of the batch B depends on, directly or not
AllNeeds(B, m) == Requires(B, Needs(m), Cardinality(ModuleIds))

Acyclic(B) == \A m \in B : m \notin AllNeeds(B, m)
Closed(B) == \A m \in B : Needs(m) \subseteq B

\* a problem of the module's own: a dependency outside the batch, a failing
\* check of its core version or of the version of a dependency, a createModule
\* that throws
OwnProblem(B, m) ==
    \/ ~(Needs(m) \subseteq B)
    \/ ~moduleManager.libraries[m].coreVersionEqual
    \/ \E d \in Needs(m) :
           moduleManager.libraries[d].version # moduleManager.libraries[m].version
    \/ moduleManager.libraries[m].fails

\* the modules with a problem of their own and the modules depending on them
Excluded(B) ==
    {m \in B : OwnProblem(B, m) \/ \E d \in AllNeeds(B, m) \cap B : OwnProblem(B, d)}

\* onModulesDidRegister was invoked once, at the end of the call
DidRegisterOnce ==
    /\ Cardinality(Steps("onModulesDidRegister")) = 1
    /\ notes[Len(notes)].type = "onModulesDidRegister"

\* C28: when a module of a batch passed to registerModules has a problem of its
\* own (a dependency that is not in the batch, a failing dependency check, a
\* createModule that throws), only it and the modules depending on it are
\* excluded: every other module of the batch is registered, and
\* onModulesDidRegister is invoked once at the end.
C28_OnlyDependentsExcluded ==
    last.op = "registerModules" /\ Acyclic(Range(last.arg)) =>
        /\ \A m \in Range(last.arg) \ Excluded(Range(last.arg)) :
               getModuleByIdentifier(moduleManager, m)
        /\ DidRegisterOnce

\* C28 for the batches that hold every dependency of their modules, registered
\* with a manager all of whose modules are alive: the modules without a problem
\* that depend on no module with a problem are registered, and
\* onModulesDidRegister is invoked once at the end.
C28_ClosedBatch ==
    /\ last.op = "registerModules" /\ Acyclic(Range(last.arg)) /\ Closed(Range(last.arg))
    /\ \A i \in DOMAIN moduleManager.inviwoModules_ : moduleManager.inviwoModules_[i].module
    => /\ \A m \in Range(last.arg) \ Excluded(Range(last.arg)) :
              getModuleByIdentifier(moduleManager, m)
       /\ DidRegisterOnce

\* a closed batch of three modules of which one failed to be created, one
\* depends on it and one was registered
C28_WitnessClosed ==
    /\ last.op = "registerModules" /\ Len(last.arg) = 3
    /\ Acyclic(Range(last.arg)) /\ Closed(Range(last.arg))
    /\ \E i \in DOMAIN notes : notes[i].type = "createModule" /\ ~notes[i].ok
    /\ Cardinality(Excluded(Range(last.arg))) = 2
    /\ Len(moduleManager.inviwoModules_) = 1

\* C29: topologicalSort turns a batch whose dependency graph is acyclic and
\* closed into a permutation of itself in which every module comes after all
\* modules it depends on, and registerModules creates the modules in that order;
\* for a batch whose dependency graph contains a cycle it throws "Module
\* Dependency graph is not a DAG" and nothing is registered.
C29_SortedOrNotADag ==
    [][last'.op = "registerModules" =>
          LET B == Range(last'.arg)
              sorted == moduleTopologicalSort([i \in DOMAIN last'.arg |->
                                                   moduleManager.libraries[last'.arg[i]]])
              pos(m) == CHOOSE i \in DOMAIN sorted.containers :
                            sorted.containers[i].identifier = m
              created == {i \in DOMAIN notes' : notes'[i].type = "createModule"}
          IN /\ Acyclic(B) /\ Closed(B) =>
                    /\ last'.thrown = "none" /\ sorted.thrown = "none"
                    /\ Len(sorted.containers) = Len(last'.arg)
                    /\ {sorted.containers[i].identifier : i \in DOMAIN sorted.containers} = B
                    /\ \A m \in B : \A d \in Needs(m) : pos(d) < pos(m)
                    /\ \A i, j \in created :
                           i < j => pos(notes'[i].item) < pos(notes'[j].item)
             /\ ~Acyclic(B) =>
                    /\ last'.thrown = "Module Dependency graph is not a DAG"
                    /\ moduleManager' = moduleManager /\ notes' = <<>>]_vars

\* C29 with the cycle case for closed batches only: a closed batch with a cycle
\* makes topologicalSort throw "Module Dependency graph is not a DAG", and any
\* batch with a cycle registers nothing.
C29_ClosedBatches ==
    [][last'.op = "registerModules" =>
          LET B == Range(last'.arg)
              sorted == moduleTopologicalSort([i \in DOMAIN last'.arg |->
                                                   moduleManager.libraries[last'.arg[i]]])
              pos(m) == CHOOSE i \in DOMAIN sorted.containers :
                            sorted.containers[i].identifier = m
              created == {i \in DOMAIN notes' : notes'[i].type = "createModule"}
          IN /\ Acyclic(B) /\ Closed(B) =>
                    /\ last'.thrown = "none" /\ sorted.thrown = "none"
                    /\ Len(sorted.containers) = Len(last'.arg)
                    /\ {sorted.containers[i].identifier : i \in DOMAIN sorted.containers} = B
                    /\ \A m \in B : \A d \in Needs(m) : pos(d) < pos(m)
                    /\ \A i, j \in created :
                           i < j => pos(notes'[i].item) < pos(notes'[j].item)
             /\ ~Acyclic(B) =>
                    /\ Closed(B) => last'.thrown = "Module Dependency graph is not a DAG"
                    /\ last'.thrown # "none"
                    /\ moduleManager' = moduleManager /\ notes' = <<>>]_vars

\* a batch given against its dependency order whose three modules were created
\* in dependency order
C29_WitnessReordered ==
    /\ last.op = "registerModules" /\ last.arg = <<2, 1, 3>>
    /\ Needs(1) = {3} /\ Needs(2) = {1}
    /\ [i \in DOMAIN notes |-> notes[i].item] = <<3, 1, 2, NULL>>

\* a batch with a cycle that was refused
C29_WitnessCycle ==
    /\ last.op = "registerModules" /\ ~Acyclic(Range(last.arg))
    /\ last.thrown = "Module Dependency graph is not a DAG"

CopyOps == {"copyConstruct", "copyAssign"}

\* the callbacks that had been registered on a list before the step
Registered(l) == Range(callbacks.lists[l].dispatcher_)

\* the callbacks of its own (the ones it holds) that a list invokes
InvokesOwn(c, l) == SelectSeq(invokeAll(c, l), LAMBDA cb : InSeq(cb, c.lists[l].callBackList_))

\* C30: copy-constructing or copy-assigning a CallBackList clears any callback:
\* after it, invokeAll() on the destination invokes no callback that was
\* registered on the source and, for assignment, none that was registered on
\* the destination before, while the source keeps invoking its own callbacks.
C30_CopyClearsCallbacks ==
    [][last'.op \in CopyOps /\ last'.owner # last'.arg =>
          /\ \A cb \in Range(invokeAll(callbacks', last'.owner)) :
                 cb \notin Registered(last'.arg) \cup Registered(last'.owner)
          /\ InvokesOwn(callbacks', last'.arg) = InvokesOwn(callbacks, last'.arg)]_vars

\* C30 for what the copy owns: after a copy construction, or an assignment from
\* a const list, the destination holds no callback (its callBackList_ is
\* empty), and the source invokes the callbacks it holds as before.
C30_CopyOwnsNothing ==
    [][/\ last'.op \in CopyOps /\ last'.owner # last'.arg
       /\ last'.op = "copyAssign" => last'.ret = "const"
       => /\ callbacks'.lists[last'.owner].callBackList_ = <<>>
          /\ InvokesOwn(callbacks', last'.arg) = InvokesOwn(callbacks, last'.arg)]_vars

\* a list with a callback of its own has been assigned a list with another
\* callback
C30_WitnessAssigned ==
    /\ last.op = "copyAssign" /\ last.owner # last.arg /\ last.ret = "const"
    /\ callbacks.lists[last.arg].callBackList_ # <<>>
    /\ \E cb \in Range(callbacks.lists[last.arg].dispatcher_) :
           ~InSeq(cb, callbacks.lists[last.arg].callBackList_)

MoveListOps == {"moveConstruct", "moveAssign"}

\* C31: move-constructing or move-assigning a CallBackList moves the
\* callbacks: afterwards invokeAll() on the destination invokes every callback
\* that had been added to the source, and remove(handle) on the destination
\* returns true for the handles obtained from the source.
C31_MoveMovesCallbacks ==
    [][last'.op \in MoveListOps =>
          \A cb \in Range(callbacks.lists[last'.arg].callBackList_) :
              /\ InSeq(cb, invokeAll(callbacks', last'.owner))
              /\ removeCallback(callbacks', last'.owner, cb).ret]_vars

\* C31 for move construction: the new list invokes every callback the source
\* held and removes them by their handles, and the source holds none any more.
C31_MoveConstructMoves ==
    [][last'.op = "moveConstruct" =>
          /\ \A cb \in Range(callbacks.lists[last'.arg].callBackList_) :
                 /\ InSeq(cb, invokeAll(callbacks', last'.owner))
                 /\ removeCallback(callbacks', last'.owner, cb).ret
          /\ callbacks'.lists[last'.arg].callBackList_ = <<>>]_vars

\* a list has been move-constructed from a list that held two callbacks
C31_WitnessConstructed ==
    /\ last.op = "moveConstruct"
    /\ Len(callbacks.lists[last.owner].callBackList_) = 2
    /\ callbacks.lists[last.arg].callBackList_ = <<>>

\* the identifiers of a sequence of properties
IdentsOf(q) == [i \in DOMAIN q |-> ident[q[i]]]

\* the value of the property of an owner that has the identifier
ValueOf(o, id) == value[getPropertyByIdentifier(Cur, o, id)]

\* C32: serializing a PropertyOwner and deserializing the document into an
\* owner constructed the same way reproduces the sequence of property
\* identifiers, the set of owned properties and the values, and serializing the
\* result again gives the same document.
C32_RoundTrip ==
    last.op = "deserialize" =>
        /\ IdentsOf(properties_[102]) = IdentsOf(properties_[101])
        /\ Range(IdentsOf(ownedProperties_[102])) = Range(IdentsOf(ownedProperties_[101]))
        /\ \A id \in Range(IdentsOf(properties_[101])) : ValueOf(102, id) = ValueOf(101, id)
        /\ serializeOwner(Cur, 102) = clipboard[1]

\* C32 without the order of the properties that were not written: the owner
\* read has the same properties by identifier, the same owned ones and the same
\* values, and serializing it again gives the same document.
C32_RoundTripUpToOrder ==
    last.op = "deserialize" =>
        /\ Range(IdentsOf(properties_[102])) = Range(IdentsOf(properties_[101]))
        /\ Len(properties_[102]) = Len(properties_[101])
        /\ Range(IdentsOf(ownedProperties_[102])) = Range(IdentsOf(ownedProperties_[101]))
        /\ \A id \in Range(IdentsOf(properties_[101])) : ValueOf(102, id) = ValueOf(101, id)
        /\ serializeOwner(Cur, 102) = clipboard[1]

\* a document with a changed member and a property made at run time has been
\* read: the owner that read it has made the property and owns it
C32_WitnessMade ==
    /\ last.op = "deserialize" /\ Len(clipboard[1].properties) = 2
    /\ pstate[6] = "live" /\ ownedProperties_[102] = <<6>> /\ ownedProperties_[101] = <<5>>
    /\ \E id \in {"x", "y"} : ValueOf(102, id) # DefaultValue

\* what checkDependencies is to return for a module of the libraries: it was
\* built for the current core version, and every dependency it declares is
\* registered in the version declared
DependenciesMet(obj) ==
    /\ obj.coreVersionEqual
    /\ \A dep \in obj.dependencies :
           /\ getModuleByIdentifier(moduleManager, dep.name)
           /\ moduleManager.inviwoModules_[getFactoryObject(moduleManager, dep.name)].version
                  = dep.version

\* C33: checkDependencies(obj) is true if and only if obj was built for the
\* current core version and, for every dependency (name, version) it declares,
\* a module of that name is registered and the version of the loaded module
\* equals the version declared.
C33_CheckDependencies ==
    \A m \in DOMAIN moduleManager.libraries :
        checkDependencies(moduleManager, moduleManager.libraries[m])
            = DependenciesMet(moduleManager.libraries[m])

\* C33 for libraries that all have the same version
C33_OneVersion ==
    (\A m, d \in DOMAIN moduleManager.libraries :
         moduleManager.libraries[m].version = moduleManager.libraries[d].version)
    => \A m \in DOMAIN moduleManager.libraries :
           checkDependencies(moduleManager, moduleManager.libraries[m])
               = DependenciesMet(moduleManager.libraries[m])

\* a module whose dependency is registered passes the check and is registered
C33_WitnessMet ==
    /\ last.op = "registerModules"
    /\ \E m \in DOMAIN moduleManager.libraries :
           /\ moduleManager.libraries[m].dependencies # {}
           /\ DependenciesMet(moduleManager.libraries[m])
           /\ getModuleByIdentifier(moduleManager, m)

\* the place of a step of reloadModules in the order of its events
Phase(step) ==
    CASE step.type = "save" -> 0
      [] step.type = "clear" -> 1
      [] step.type = "onModulesWillUnregister" -> 2
      [] step.type = "resetModule" -> 3
      [] step.type = "unload" -> 4
      [] step.type = "load" /\ step.item # NULL -> 5
      [] step.type = "createModule" -> 6
      [] step.type = "onModulesDidRegister" -> 7
      [] step.type = "load" /\ step.item = NULL -> 8

\* the steps of the last call in a phase, and the containers they act on
InPhase(k) == {i \in DOMAIN notes : Phase(notes[i]) = k}
ActedOn(k) == {notes[i].item : i \in InPhase(k)}

\* the steps of a phase act on the containers once each, in rising
\* (dir = 1) or falling (dir = -1) order of their positions
Ordered(k, dir) ==
    \A i, j \in InPhase(k) : i < j => dir * notes[i].item < dir * notes[j].item

Unprotected(field) ==
    {i \in DOMAIN moduleManager.inviwoModules_ : ~moduleManager.inviwoModules_[i][field]}

\* the events of a reload that got past the save step are in order
C34_EventOrder ==
    /\ \A i, j \in DOMAIN notes : i < j => Phase(notes[i]) <= Phase(notes[j])
    /\ \A k \in {1, 2, 7, 8} : Cardinality(InPhase(k)) = 1
    /\ Ordered(3, -1) /\ Ordered(4, -1) /\ Ordered(5, 1) /\ Ordered(6, 1)
    /\ ActedOn(3) = Unprotected("protectedModule")
    /\ ActedOn(6) = Unprotected("protectedModule")
    /\ ActedOn(4) = Unprotected("protectedLibrary")
    /\ ActedOn(5) = Unprotected("protectedLibrary")

\* C34: when reloadModules gets past the save step its events are: network
\* cleared, onModulesWillUnregister, the non-protected modules reset in reverse
\* registration order, the non-protected libraries unloaded in reverse order,
\* the libraries loaded in forward order, the modules created in forward order,
\* onModulesDidRegister, the saved workspace loaded; a protected module is
\* never reset, a protected library never unloaded, and a module is never reset
\* after a module it depends on.
C34_ReloadOrder ==
    last.op = "reloadModules" /\ Steps("clear") # {} =>
        /\ C34_EventOrder
        /\ \A i, j \in InPhase(3) :
               i < j => moduleManager.inviwoModules_[notes[i].item].identifier
                            \notin Needs(moduleManager.inviwoModules_[notes[j].item].identifier)

\* C34 without the dependency clause: the order of the events of a reload and
\* the protected modules and libraries
C34_ReloadEvents ==
    last.op = "reloadModules" /\ Steps("clear") # {} => C34_EventOrder

\* a reload of three modules, the first protected, one depending on another
C34_Witness ==
    /\ last.op = "reloadModules" /\ Len(moduleManager.inviwoModules_) = 3
    /\ Cardinality(InPhase(3)) = 2 /\ Cardinality(InPhase(6)) = 2
    /\ moduleManager.inviwoModules_[1].protectedModule
    /\ Needs(moduleManager.inviwoModules_[3].identifier) # {}

\* no element is in the sequence twice
Once(q) == \A i, j \in DOMAIN q : q[i] = q[j] => i = j

\* C35: the sorts and the traversals end on every network, one with a cycle
\* included, because each processor is expanded at most once: the list of a
\* sort holds no processor twice and only sinks and processors upstream of a
\* sink, and getPredecessors and getSuccessors expand each processor of the
\* network at most once.
C35_ExpandedOnce ==
    /\ last.op \in {"topologicalSort", "topologicalSortFiltered"} =>
           LET active == IF last.op = "topologicalSort" THEN network.connections
                         ELSE network.connections \ network.inactive
           IN /\ Once(last.ret)
              /\ \A p \in Range(last.ret) :
                     \/ p \in network.sinks \cap network.processors
                     \/ \E s \in network.sinks \cap network.processors :
                            <<p, s>> \in Reach(active)
    /\ last.op = "neighbours" =>
           \A up \in BOOLEAN :
               LET expanded == traverseNetwork(network, up, FALSE,
                                               [state |-> {}, visited |-> <<>>],
                                               last.arg).visited
               IN Once(expanded) /\ Range(expanded) \subseteq network.processors

\* a network whose connections form a cycle upstream of a sink has been sorted
C35_WitnessCycle ==
    /\ last.op = "topologicalSort"
    /\ \E p \in Range(last.ret) : <<p, p>> \in Reach(network.connections)
    /\ \E p \in network.processors : p \notin Range(last.ret)

\* the predecessors of a processor on a cycle have been asked for
C35_WitnessNeighbours ==
    /\ last.op = "neighbours" /\ <<last.arg, last.arg>> \in Reach(network.connections)
    /\ Cardinality(last.ret.predecessors) >= 3

\* members of the list of o that are of kind k
MembersOfKind(o, k) == {p \in Range(properties_[o]) : kind[p] = k}

\* C36: in every reachable state the derived indices of a PropertyOwner agree
\* with its property list: the EventProperty index and the CompositeProperty
\* index hold exactly the members of that kind, each once, and every owned
\* property is a member of the list and is in the owned container once.
C36_IndicesConsistent ==
    \A o \in OwnerIds :
        /\ Once(eventProperties_[o])
        /\ Range(eventProperties_[o]) = MembersOfKind(o, "event")
        /\ Once(compositeProperties_[o])
        /\ Range(compositeProperties_[o]) = MembersOfKind(o, "composite")
        /\ Once(ownedProperties_[o])
        /\ Range(ownedProperties_[o]) \subseteq Range(properties_[o])

\* an owner that holds an EventProperty and a CompositeProperty it owns has
\* been moved into another owner, which now lists both
C36_WitnessMoved ==
    /\ last.op \in {"moveConstruct", "moveAssign"}
    /\ eventProperties_[last.owner] # <<>> /\ compositeProperties_[last.owner] # <<>>
    /\ Len(ownedProperties_[last.owner]) >= 2
    /\ properties_[last.arg] = <<>>

\* an EventProperty has been removed from an owner that still has members
C36_WitnessRemoved ==
    /\ last.op \in {"removeByPtr", "clear"} /\ last.owner \in Owners
    /\ properties_[last.owner] # <<>>
    /\ \E i \in DOMAIN notes :
           /\ notes[i].type = "didRemove" /\ BaseKind(notes[i].prop) = "event"
           /\ ~InSeq(notes[i].prop, properties_[last.owner])

\* the notifications of the last call that owner o has sent
NotesOf(q, o) == SelectSeq(q, LAMBDA n : n.owner = o)

\* C37: a property is destroyed only in a call that has delivered its did-remove
\* notification before, so every notification refers to a property that exists
\* when it is delivered; clear() removes the members from the last to the first,
\* each with its own will-remove/did-remove pair, and leaves the owner empty.
C37_DestroyedAfterDidRemove ==
    [][/\ \A i \in DOMAIN notes' : notes'[i].alive
       /\ \A p \in Props :
              (pstate[p] = "live" /\ pstate'[p] = "free") =>
                  \E i \in DOMAIN notes' :
                      /\ notes'[i].type = "didRemove" /\ notes'[i].prop = p
                      /\ ~notes'[i].listed
       /\ last'.op \in {"clear", "destruct"} =>
              LET o == last'.owner
                  q == properties_[o]
                  own == NotesOf(notes', o)
              IN /\ properties_'[o] = <<>>
                 /\ Len(own) = 2 * Len(q)
                 /\ \A k \in 1..Len(q) :
                        /\ own[2 * k - 1].type = "willRemove"
                        /\ own[2 * k].type = "didRemove"
                        /\ own[2 * k - 1].prop = q[Len(q) + 1 - k]
                        /\ own[2 * k].prop = q[Len(q) + 1 - k]
                        /\ own[2 * k - 1].index = Len(q) - k
                        /\ own[2 * k].index = Len(q) - k
      ]_vars

\* an observed owner with at least two members has been cleared and a property
\* it owned is gone
C37_WitnessCleared ==
    /\ last.op = "clear" /\ last.owner \in Owners
    /\ Len(NotesOf(notes, last.owner)) >= 4
    /\ \E i \in DOMAIN notes :
           /\ notes[i].type = "didRemove" /\ notes[i].to # {}
           /\ notes[i].alive /\ pstate[notes[i].prop] = "free"

\* an owner has been destroyed together with a CompositeProperty that had a member
C37_WitnessDestructed ==
    /\ last.op = "destruct"
    /\ \E i \in DOMAIN notes : notes[i].owner \in Props /\ notes[i].type = "didRemove"

ListOf(l) == callbacks.lists[l]

\* the callbacks of the dispatcher of l that no other list holds
Unshared(l) ==
    \A cb \in Range(ListOf(l).dispatcher_), m \in ListIds \ {l} :
        ~(ListOf(m).constructed /\ InSeq(cb, ListOf(m).callBackList_))

\* the calls made on one CallBackList
BlockingOps == {"startBlockingCallbacks", "stopBlockingCallbacks", "invokeAll",
                "addLambdaCallback", "remove", "clear"}

\* startBlockingCallbacks adds one to the count of the list, stopBlockingCallbacks
\* takes one off and no other call on the list changes it
Counted ==
    last'.op \in BlockingOps =>
        callbacks'.lists[last'.owner].callbacksBlocked_ =
            ListOf(last'.owner).callbacksBlocked_
                + (CASE last'.op = "startBlockingCallbacks" -> 1
                     [] last'.op = "stopBlockingCallbacks" -> -1
                     [] OTHER -> 0)

\* invokeAll invokes the callbacks the list holds when the count is zero, and
\* none when it is not
InvokedWhenBalanced ==
    last'.op = "invokeAll" =>
        [i \in DOMAIN notes' |-> notes'[i].item] =
            IF ListOf(last'.owner).callbacksBlocked_ = 0
            THEN ListOf(last'.owner).callBackList_ ELSE <<>>

\* a callback that remove() has removed or clear() has dropped is not among the
\* callbacks the list invokes from then on
RemovedNotInvoked ==
    LET l == last'.owner
        invoked == Range(dispatcherInvoke(callbacks', l))
    IN /\ (last'.op = "remove" /\ last'.ret = TRUE) => last'.arg \notin invoked
       /\ last'.op = "clear" => Range(ListOf(l).callBackList_) \cap invoked = {}

\* C38: blocking is counted: the count starts at zero, each start adds one and
\* each stop takes one off, and invokeAll() invokes the registered callbacks if
\* and only if the count is zero, so nested pairs enable invocation again only
\* after the outermost stop; a callback removed with remove() or dropped by
\* clear() is not invoked by a later invokeAll().
C38_BlockingCounted ==
    /\ \A l \in ListIds : ListOf(l).callbacksBlocked_ = 0
    /\ [][Counted /\ InvokedWhenBalanced /\ RemovedNotInvoked]_vars

\* C38 for a list whose callbacks no other list holds
C38_BlockingCountedUnshared ==
    /\ \A l \in ListIds : ListOf(l).callbacksBlocked_ = 0
    /\ [][/\ Counted
          /\ (last'.op \in BlockingOps /\ Unshared(last'.owner)) =>
                 InvokedWhenBalanced /\ RemovedNotInvoked]_vars

\* invokeAll has invoked nothing on a list that holds callbacks, after two starts
\* and one stop
C38_WitnessNested ==
    /\ last.op = "invokeAll" /\ notes = <<>>
    /\ ListOf(1).callbacksBlocked_ = 1 /\ Len(ListOf(1).callBackList_) >= 2

\* invokeAll has invoked the callbacks left after a remove
C38_WitnessInvoked ==
    /\ last.op = "invokeAll" /\ notes # <<>>
    /\ Len(ListOf(1).dispatcher_) > Len(ListOf(1).callBackList_)

\* TFPrimitive& get(size_t i), front() and back()
get(t, i) == t.sorted_[i]
front(t) == t.sorted_[1]
back(t) == t.sorted_[Len(t.sorted_)]

\* the sorted view holds each stored primitive once, in non-decreasing order of
\* (position, alpha), and front() and back() are its ends
SortedView(t) ==
    /\ Once(t.sorted_)
    /\ Range(t.sorted_) = DOMAIN t.values_
    /\ \A i, j \in DOMAIN t.sorted_ :
           i < j => ~Less(t.values_[get(t, j)], t.values_[get(t, i)])
    /\ t.values_ # <<>> =>
           \A p \in DOMAIN t.values_ :
               /\ ~Less(t.values_[p], t.values_[front(t)])
               /\ ~Less(t.values_[back(t)], t.values_[p])

\* C39: in every reachable state of a TFPrimitiveSet the sorted view is a
\* permutation of the stored primitives, each once, in non-decreasing order of
\* (position, alpha), which get(i), front() and back() follow, and setPosition
\* on a selection keeps the relative order of the primitives not selected.
C39_SortedView ==
    /\ SortedView(tf)
    /\ [][/\ SortedView(tf')
          /\ last'.op = "setPosition" =>
                 SelectSeq(tf'.sorted_, LAMBDA p : p \notin last'.arg) =
                 SelectSeq(tf.sorted_, LAMBDA p : p \notin last'.arg)]_vars

\* setPosition has moved a selected primitive past one that is not selected, in
\* a set where two primitives have the same position
C39_WitnessMoved ==
    /\ last.op = "setPosition" /\ last.thrown = "none"
    /\ Len(tf.values_) = MaxPrimitives /\ Cardinality(last.arg) = 1
    /\ \E p \in last.arg : tf.sorted_[2] = p /\ p # 2
    /\ \E i \in DOMAIN tf.sorted_ :
           i > 1 /\ tf.values_[tf.sorted_[i]].pos = tf.values_[tf.sorted_[i - 1]].pos
                 /\ tf.values_[tf.sorted_[i]].alpha # tf.values_[tf.sorted_[i - 1]].alpha

\* every primitive of a Relative set has its position in [0, 1]
RelativeInRange(t) ==
    t.type_ = "Relative" => \A p \in DOMAIN t.values_ : ~OutOfRange(t.values_[p].pos)

\* the calls that are given positions
PositionOps == {"add", "set", "setPosition"}

\* C40: every primitive of a Relative set has its position within [0, 1] in
\* every reachable state: add, set and setPosition with a position outside
\* [0, 1] throw a RangeException and leave the set as it was, and no other
\* operation makes a Relative set that holds a position outside [0, 1].
C40_RelativeInRange ==
    /\ RelativeInRange(tf)
    /\ [][/\ RelativeInRange(tf')
          /\ (last'.op \in PositionOps /\ tf.type_ = "Relative" /\ last'.index = 1) =>
                 last'.thrown = "RangeException"
          /\ last'.thrown # "none" => tf' = tf]_vars

\* what holds of C40: add and setPosition throw and change nothing, set throws,
\* nothing else throws, and every call but setType and a change of a contained
\* primitive keeps the positions of a Relative set in [0, 1]
C40_RangeVerified ==
    [][/\ (last'.op \in PositionOps /\ tf.type_ = "Relative" /\ last'.index = 1) <=>
              last'.thrown = "RangeException"
       /\ (last'.thrown # "none" /\ last'.op # "set") => tf' = tf
       /\ (/\ RelativeInRange(tf)
           /\ last'.op \notin {"setType", "primitiveSetPosition", "primitiveSetAlpha"})
              => RelativeInRange(tf')]_vars

\* set has thrown on a Relative set of two primitives
C40_WitnessThrown ==
    /\ last.op = "set" /\ last.thrown = "RangeException"
    /\ Len(tf.values_) = 2 /\ RelativeInRange(tf)

====
